---------------------------- MODULE Spec2Model ----------------------------
(***************************************************************************)
(* A model of lib/db-ctl-base.c, the generic command interpreter of the    *)
(* database control utilities: the name matcher, the row resolver, the     *)
(* typed-datum evaluator, the symbol table and the database commands.      *)
(*                                                                         *)
(* Pointers into arrays (columns of a table, tables of the schema) are     *)
(* indices, 0 being NULL.  C strings are sequences of one-character        *)
(* strings; the terminating NUL is what At() yields past the end.          *)
(***************************************************************************)
EXTENDS Integers, Sequences, FiniteSets, TLC

VARIABLES
    tables,     \* the schema handed to ctl_init: the ctl_table_class array
    db,         \* the rows the database server holds (what is persisted)
    ctx,        \* the ctl_context of the run: IDL, transaction, symbol table,
                \* outputs, try_again, and how the process has ended if it has
    h_pc,       \* a function called on its own: which one has run
    h_in,       \* ... its arguments
    h_out       \* ... what it returned

vars == <<tables, db, ctx, h_pc, h_in, h_out>>

\* The largest unsigned int.  The checker's integers end at 2^31 - 1, which
\* stands for 2^32 - 1 here: the program only compares UINT_MAX and
\* UINT_MAX - 1 with string lengths, datum sizes and array indices.
UINT_MAX == 2147483647

NULL == 0

(***************************************************************************)
(* C strings.                                                              *)
(***************************************************************************)
NUL == ""

At(s, i) == IF i >= 1 /\ i <= Len(s) THEN s[i] ELSE NUL

\* tolower(3) on the characters the model uses
tolower(c) ==
    CASE c = "A" -> "a"
      [] c = "B" -> "b"
      [] c = "C" -> "c"
      [] c = "F" -> "f"
      [] c = "P" -> "p"
      [] OTHER -> c

\* a normalisation of case alone, "-" kept apart from "_"
tolower_only(c) == tolower(c)

to_lower_and_underscores(c) == IF c = "-" THEN "_" ELSE tolower(c)

\* a loop that returns the count of matching characters wherever the two
\* strings part
RECURSIVE score_loop_counts(_, _, _)
score_loop_counts(name, s, score) ==
    IF to_lower_and_underscores(At(name, score + 1))
          # to_lower_and_underscores(At(s, score + 1))
    THEN score
    ELSE IF At(name, score + 1) = NUL
         THEN UINT_MAX - 1
         ELSE score_loop_counts(name, s, score + 1)

\* the for loop of score_partial_match, entered with 'score' characters
\* of both strings already found equal
RECURSIVE score_loop(_, _, _)
score_loop(name, s, score) ==
    IF to_lower_and_underscores(At(name, score + 1))
          # to_lower_and_underscores(At(s, score + 1))
    THEN IF At(s, score + 1) = NUL THEN score ELSE 0
    ELSE IF At(name, score + 1) = NUL
         THEN UINT_MAX - 1
         ELSE score_loop(name, s, score + 1)

score_partial_match(name, s) ==
    IF name = s THEN UINT_MAX ELSE score_loop(name, s, 0)

(***************************************************************************)
(* get_column and get_table: the best-match scans.  A ctl_table_class is   *)
(*   [class |-> [name, columns, is_root], row_ids]                         *)
(* and a column [name, type, mutable]; a column pointer is an index into   *)
(* class.columns and a table pointer an index into 'tables', NULL when     *)
(* there is none.                                                          *)
(***************************************************************************)
\* a scan that keeps the first of several equally good names
RECURSIVE get_column_loop_first_wins(_, _, _, _, _)
get_column_loop_first_wins(table, column_name, i, best_match, best_score) ==
    IF i > Len(table.class.columns)
    THEN [best_match |-> best_match, best_score |-> best_score]
    ELSE LET score == score_partial_match(table.class.columns[i].name,
                                          column_name)
         IN  IF score > best_score
             THEN get_column_loop_first_wins(table, column_name, i + 1, i, score)
             ELSE get_column_loop_first_wins(table, column_name, i + 1,
                                             best_match, best_score)

RECURSIVE get_column_loop(_, _, _, _, _)
get_column_loop(table, column_name, i, best_match, best_score) ==
    IF i > Len(table.class.columns)
    THEN [best_match |-> best_match, best_score |-> best_score]
    ELSE LET score == score_partial_match(table.class.columns[i].name,
                                          column_name)
         IN  IF score > best_score
             THEN get_column_loop(table, column_name, i + 1, i, score)
             ELSE IF score = best_score
                  THEN get_column_loop(table, column_name, i + 1,
                                       NULL, best_score)
                  ELSE get_column_loop(table, column_name, i + 1,
                                       best_match, best_score)

\* get_column(table, column_name, &column): the column stored and the error
\* string returned ("" for a null error)
get_column(table, column_name) ==
    LET r == get_column_loop(table, column_name, 1, NULL, 0)
    IN  [column |-> r.best_match,
         error  |-> IF r.best_match # NULL THEN ""
                    ELSE IF r.best_score # 0
                         THEN "contains more than one column whose name matches"
                         ELSE "does not contain a column whose name matches"]

RECURSIVE get_table_loop(_, _, _, _)
get_table_loop(table_name, i, best_match, best_score) ==
    IF i > Len(tables)
    THEN [best_match |-> best_match, best_score |-> best_score]
    ELSE LET score == score_partial_match(tables[i].class.name, table_name)
         IN  IF score > best_score
             THEN get_table_loop(table_name, i + 1, i, score)
             ELSE IF score = best_score
                  THEN get_table_loop(table_name, i + 1, NULL, best_score)
                  ELSE get_table_loop(table_name, i + 1, best_match, best_score)

\* get_table(table_name): the table returned, or the ctl_fatal message
get_table(table_name) ==
    LET r == get_table_loop(table_name, 1, NULL, 0)
    IN  [table |-> r.best_match,
         fatal |-> IF r.best_match # NULL THEN ""
                   ELSE IF r.best_score # 0
                        THEN "multiple table names match"
                        ELSE "unknown table"]

(***************************************************************************)
(* Atoms, types and datums (ovsdb-data.h).  An integer or uuid atom is an  *)
(* integer, a string atom is a C string.  A type is                        *)
(*   [key |-> [type, refTableName], value |-> [type, refTableName],        *)
(*    n_min, n_max]                                                        *)
(* with value.type = "void" for a set, and a datum is [n, keys, values],   *)
(* values being empty (a null pointer) when the type has no value.  The    *)
(* library keeps the keys of a datum sorted and distinct.                  *)
(***************************************************************************)
\* the characters of the model, in ASCII order
CharOrder ==
    <<"!", "#", ",", "-", ".", "0", "1", "2", "3", ":", "<", "=", ">", "@",
      "A", "B", "C", "F", "P", "[", "]", "_",
      "a", "b", "c", "d", "e", "f", "g", "i", "k", "m", "n", "o", "p", "q",
      "r", "s", "t", "u", "x", "y", "z", "{", "}">>

Rank(c) == IF c = NUL THEN 0
           ELSE (CHOOSE i \in 1..Len(CharOrder) : CharOrder[i] = c)

RECURSIVE strcmp_from(_, _, _)
strcmp_from(a, b, i) ==
    IF Rank(At(a, i)) # Rank(At(b, i))
    THEN (IF Rank(At(a, i)) < Rank(At(b, i)) THEN -1 ELSE 1)
    ELSE IF At(a, i) = NUL THEN 0 ELSE strcmp_from(a, b, i + 1)

strcmp(a, b) == strcmp_from(a, b, 1)

ovsdb_atom_compare_3way(a, b, type) ==
    IF type = "string" THEN strcmp(a, b)
    ELSE IF a < b THEN -1 ELSE IF a > b THEN 1 ELSE 0

Range(f) == { f[i] : i \in DOMAIN f }

ovsdb_type_is_map(type) == type.value.type # "void"

ovsdb_datum_init_empty == [n |-> 0, keys |-> <<>>, values |-> <<>>]

\* the first index of 'datum' whose key is 'key', UINT_MAX if there is none
ovsdb_datum_find_key(datum, key, key_type) ==
    LET hits == { i \in 1..datum.n :
                    ovsdb_atom_compare_3way(datum.keys[i], key, key_type) = 0 }
    IN  IF hits = {} THEN UINT_MAX
        ELSE CHOOSE i \in hits : \A j \in hits : i <= j

\* the index in 'datum' of 'key' paired with 'value' (any value if the value
\* type is void), UINT_MAX if there is none
ovsdb_datum_find_key_value(datum, key, key_type, value, value_type) ==
    LET idx == ovsdb_datum_find_key(datum, key, key_type)
    IN  IF idx # UINT_MAX /\ value_type # "void"
           /\ ovsdb_atom_compare_3way(datum.values[idx], value, value_type) # 0
        THEN UINT_MAX
        ELSE idx

RECURSIVE atom_arrays_compare_3way(_, _, _, _)
atom_arrays_compare_3way(a, b, type, i) ==
    IF i > Len(a) THEN 0
    ELSE LET cmp == ovsdb_atom_compare_3way(a[i], b[i], type)
         IN  IF cmp # 0 THEN cmp
             ELSE atom_arrays_compare_3way(a, b, type, i + 1)

ovsdb_datum_compare_3way(a, b, type) ==
    IF a.n # b.n THEN (IF a.n < b.n THEN -1 ELSE 1)
    ELSE LET cmp == atom_arrays_compare_3way(a.keys, b.keys, type.key.type, 1)
         IN  IF cmp # 0 \/ type.value.type = "void" THEN cmp
             ELSE atom_arrays_compare_3way(a.values, b.values,
                                           type.value.type, 1)

\* the value paired with key i of 'a', for a lookup in a datum of 'type'
value_at(a, i) == IF a.values = <<>> THEN NULL ELSE a.values[i]

\* whether every element of 'a' is also in 'b'
ovsdb_datum_includes_all(a, b, type) ==
    \A i \in 1..a.n :
        ovsdb_datum_find_key_value(b, a.keys[i], type.key.type,
                                   value_at(a, i),
                                   IF a.values = <<>> THEN "void"
                                   ELSE type.value.type) # UINT_MAX

\* 'datum' with (key, value) appended, unsorted
ovsdb_datum_add_unsafe(datum, key, value, type) ==
    [n      |-> datum.n + 1,
     keys   |-> Append(datum.keys, key),
     values |-> IF type.value.type # "void"
                THEN Append(datum.values, value) ELSE <<>>]

\* 'datum' without its element idx
ovsdb_datum_remove_unsafe(datum, idx) ==
    LET drop(s) == [i \in 1..(Len(s) - 1) |-> IF i < idx THEN s[i] ELSE s[i + 1]]
    IN  [n      |-> datum.n - 1,
         keys   |-> drop(datum.keys),
         values |-> IF datum.values = <<>> THEN <<>> ELSE drop(datum.values)]

\* insertion sort by key: the first i elements of 'datum' sorted in 'sorted'
RECURSIVE datum_sort_from(_, _, _, _)
datum_sort_from(datum, key_type, i, sorted) ==
    IF i > datum.n THEN sorted
    ELSE LET before == Cardinality({ j \in 1..sorted.n :
                          ovsdb_atom_compare_3way(sorted.keys[j], datum.keys[i],
                                                  key_type) <= 0 })
             ins(s, x) == [k \in 1..(Len(s) + 1) |->
                             IF k <= before THEN s[k]
                             ELSE IF k = before + 1 THEN x ELSE s[k - 1]]
         IN  datum_sort_from(datum, key_type, i + 1,
                 [n      |-> sorted.n + 1,
                  keys   |-> ins(sorted.keys, datum.keys[i]),
                  values |-> IF datum.values = <<>> THEN <<>>
                             ELSE ins(sorted.values, datum.values[i])])

\* ovsdb_datum_sort: the datum sorted by key, or an error for a repeated key
ovsdb_datum_sort(datum, key_type) ==
    LET sorted == datum_sort_from(datum, key_type, 1, ovsdb_datum_init_empty)
    IN  [error |-> \E i \in 1..(sorted.n - 1) :
                       ovsdb_atom_compare_3way(sorted.keys[i], sorted.keys[i + 1],
                                               key_type) = 0,
         datum |-> sorted]

\* ovsdb_datum_union(a, b, type, replace = false): a plus the elements of b
\* whose key a lacks
RECURSIVE datum_union_from(_, _, _, _, _)
datum_union_from(a, b, type, bi, out) ==
    IF bi > b.n THEN out
    ELSE IF ovsdb_datum_find_key(a, b.keys[bi], type.key.type) = UINT_MAX
         THEN datum_union_from(a, b, type, bi + 1,
                  ovsdb_datum_add_unsafe(out, b.keys[bi], value_at(b, bi), type))
         ELSE datum_union_from(a, b, type, bi + 1, out)

ovsdb_datum_union(a, b, type) ==
    ovsdb_datum_sort(datum_union_from(a, b, type, 1, a), type.key.type).datum

\* ovsdb_datum_subtract(a, a_type, b, b_type): a without its elements found
\* in b (by key alone when b_type has no value)
RECURSIVE datum_subtract_from(_, _, _, _, _)
datum_subtract_from(a, a_type, b, b_type, i) ==
    IF i > a.n THEN a
    ELSE IF ovsdb_datum_find_key_value(b, a.keys[i], a_type.key.type,
                                       value_at(a, i), b_type.value.type)
              # UINT_MAX
         THEN datum_subtract_from(ovsdb_datum_remove_unsafe(a, i),
                                  a_type, b, b_type, i)
         ELSE datum_subtract_from(a, a_type, b, b_type, i + 1)

ovsdb_datum_subtract(a, a_type, b, b_type) ==
    datum_subtract_from(a, a_type, b, b_type, 1)

(***************************************************************************)
(* The symbol table (ovsdb-data.h): a function from the symbol names in    *)
(* the table to [uuid, created, strong_ref].                               *)
(***************************************************************************)
\* uuid_generate(): the uuid of the k'th symbol, of the k'th inserted row
SymbolUuid(k) == 20 + k
InsertUuid(k) == 30 + k

ovsdb_symbol_table_get(symtab, name) == name \in DOMAIN symtab

\* the table with 'name' in it: a symbol not yet there gets a new uuid and
\* is neither created nor referenced
ovsdb_symbol_table_insert(symtab, name) ==
    IF name \in DOMAIN symtab THEN symtab
    ELSE [x \in DOMAIN symtab \cup {name} |->
            IF x = name
            THEN [uuid       |-> SymbolUuid(Cardinality(DOMAIN symtab) + 1),
                  created    |-> FALSE,
                  strong_ref |-> FALSE]
            ELSE symtab[x]]

(***************************************************************************)
(* Tokens, atoms and datums from strings (ovsdb-data.c), in the subset of  *)
(* the syntax the model's inputs use: bare tokens, one-digit integers,     *)
(* uuids written "#" digit, elements separated by "," and an optional      *)
(* pair of brackets or braces around the whole.                            *)
(***************************************************************************)
ovsdb_token_is_delim(c) ==
    c \in {":", "=", ",", " ", "[", "]", "{", "}", "!", "<", ">", NUL}

\* ovsdb_token_parse(&p, &token): the bare token of s that starts at p and
\* the position after it
RECURSIVE token_end(_, _)
token_end(s, p) ==
    IF ovsdb_token_is_delim(At(s, p)) THEN p ELSE token_end(s, p + 1)

ovsdb_token_parse(s, p) ==
    [error |-> "", token |-> SubSeq(s, p, token_end(s, p) - 1),
     p |-> token_end(s, p)]

Digits == <<"1", "2", "3">>

\* the text of a uuid: "#" and its number in decimal, of one or two digits
DecDigits == <<"0", "1", "2", "3", "4", "5", "6", "7", "8", "9">>

dec_value(ch) == (CHOOSE d \in DOMAIN DecDigits : DecDigits[d] = ch) - 1

\* uuid_from_string(&uuid, s)
uuid_from_string(s) ==
    IF Len(s) = 2 /\ s[1] = "#" /\ \E d \in DOMAIN Digits : Digits[d] = s[2]
    THEN [ok |-> TRUE, uuid |-> CHOOSE d \in DOMAIN Digits : Digits[d] = s[2]]
    ELSE IF /\ Len(s) = 3 /\ s[1] = "#" /\ s[2] # "0"
            /\ s[2] \in Range(DecDigits) /\ s[3] \in Range(DecDigits)
    THEN [ok |-> TRUE, uuid |-> 10 * dec_value(s[2]) + dec_value(s[3])]
    ELSE [ok |-> FALSE, uuid |-> NULL]

\* UUID_FMT
uuid_to_string(uuid) ==
    IF uuid \in DOMAIN Digits THEN <<"#", Digits[uuid]>>
    ELSE <<"#", DecDigits[(uuid \div 10) + 1], DecDigits[(uuid % 10) + 1]>>

\* ovsdb_atom_from_string(&atom, base, s, symtab)
ovsdb_atom_from_string(base, s, symtab) ==
    CASE base.type = "integer" ->
           IF Len(s) = 1 /\ \E d \in DOMAIN Digits : Digits[d] = s[1]
           THEN [error  |-> "",
                 atom   |-> CHOOSE d \in DOMAIN Digits : Digits[d] = s[1],
                 symtab |-> symtab]
           ELSE [error |-> "is not a valid integer", atom |-> NULL,
                 symtab |-> symtab]
      [] base.type = "string" ->
           IF s = <<>>
           THEN [error |-> "An empty string is not valid as input",
                 atom |-> <<>>, symtab |-> symtab]
           ELSE [error |-> "", atom |-> s, symtab |-> symtab]
      [] base.type = "uuid" ->
           IF At(s, 1) = "@"
           THEN LET t == ovsdb_symbol_table_insert(symtab, s)
                IN  [error  |-> "",
                     atom   |-> t[s].uuid,
                     symtab |-> IF base.refTableName # <<>>
                                THEN [t EXCEPT ![s].strong_ref = TRUE]
                                ELSE t]
           ELSE IF uuid_from_string(s).ok
                THEN [error |-> "", atom |-> uuid_from_string(s).uuid,
                      symtab |-> symtab]
                ELSE [error |-> "is not a valid UUID", atom |-> NULL,
                      symtab |-> symtab]

\* the element loop of ovsdb_datum_from_string, at position p of s with the
\* elements before p in 'datum'
RECURSIVE datum_from_string_loop(_, _, _, _, _, _)
datum_from_string_loop(type, s, p, end_delim, datum, symtab) ==
    IF At(s, p) = NUL \/ At(s, p) = end_delim
    THEN [error |-> "", p |-> p, datum |-> datum, symtab |-> symtab]
    ELSE LET kt == ovsdb_token_parse(s, p)
             k  == ovsdb_atom_from_string(type.key, kt.token, symtab)
         IN  IF k.error # ""
             THEN [error |-> k.error, p |-> p, datum |-> datum,
                   symtab |-> k.symtab]
             ELSE IF ~ovsdb_type_is_map(type)
             THEN LET q == IF At(s, kt.p) = "," THEN kt.p + 1 ELSE kt.p
                  IN  datum_from_string_loop(type, s, q, end_delim,
                          ovsdb_datum_add_unsafe(datum, k.atom, NULL, type),
                          k.symtab)
             ELSE IF At(s, kt.p) # "="
             THEN [error |-> "syntax error expecting \"=\"", p |-> p,
                   datum |-> datum, symtab |-> k.symtab]
             ELSE LET vt == ovsdb_token_parse(s, kt.p + 1)
                      v  == ovsdb_atom_from_string(type.value, vt.token,
                                                   k.symtab)
                      q  == IF At(s, vt.p) = "," THEN vt.p + 1 ELSE vt.p
                  IN  IF v.error # ""
                      THEN [error |-> v.error, p |-> p, datum |-> datum,
                            symtab |-> v.symtab]
                      ELSE datum_from_string_loop(type, s, q, end_delim,
                               ovsdb_datum_add_unsafe(datum, k.atom, v.atom, type),
                               v.symtab)

\* the closing delimiter that s must have, NUL when it opens with none
datum_end_delim(type, s) ==
    IF ovsdb_type_is_map(type)
    THEN (IF At(s, 1) = "{" THEN "}" ELSE NUL)
    ELSE (IF At(s, 1) = "[" THEN "]" ELSE NUL)

\* what ovsdb_datum_from_string returns once the elements are read: r is
\* where the element loop ended and 'sorted' its datum sorted
datum_from_string_end(type, s, end_delim, r, sorted) ==
    LET error ==
            IF s = <<>> THEN "use \"[]\" or \"{}\" to specify the empty datum"
            ELSE IF r.error # "" THEN r.error
            ELSE IF At(s, r.p) # end_delim THEN "missing delimiter at end of data"
            ELSE IF end_delim # NUL /\ At(s, r.p + 1) # NUL
                 THEN "trailing garbage after delimiter"
            ELSE IF r.datum.n < type.n_min
                 THEN "specified but the minimum number is"
            ELSE IF r.datum.n > type.n_max
                 THEN "specified but the maximum number is"
            ELSE IF sorted.error THEN "contains duplicate"
            ELSE ""
    IN  [error  |-> error,
         datum  |-> IF error = "" THEN sorted.datum ELSE ovsdb_datum_init_empty,
         symtab |-> r.symtab]

datum_from_string_read(type, s, end_delim, r) ==
    datum_from_string_end(type, s, end_delim, r,
                          ovsdb_datum_sort(r.datum, type.key.type))

\* ovsdb_datum_from_string(&datum, type, s, symtab)
ovsdb_datum_from_string(type, s, symtab) ==
    datum_from_string_read(type, s, datum_end_delim(type, s),
        datum_from_string_loop(type, s,
            IF datum_end_delim(type, s) = NUL THEN 1 ELSE 2,
            datum_end_delim(type, s), ovsdb_datum_init_empty, symtab))

(***************************************************************************)
(* parse_column_key_value: 'arg' broken into a column of 'table', an       *)
(* optional key and, when a value is wanted, an operator and a value.      *)
(* allowed_operators is the array given (<<>> for a null one: only "=")    *)
(* and the operator found is its C index, from 0.  A null string pointer   *)
(* is has_key (has_value) = FALSE.                                         *)
(***************************************************************************)
\* strncmp(op, p, strlen(op)) == 0, p being position p of arg
op_is_prefix(op, arg, p) == \A k \in 1..Len(op) : At(arg, p + k - 1) = op[k]

\* a scan that takes an operator with nothing after it too
RECURSIVE best_operator_loop_no_value(_, _, _, _, _, _)
best_operator_loop_no_value(arg, p, allowed_operators, i, best, best_len) ==
    IF i > Len(allowed_operators)
    THEN [best |-> best, best_len |-> best_len]
    ELSE LET op     == allowed_operators[i]
             op_len == Len(op)
         IN  IF op_len > best_len /\ op_is_prefix(op, arg, p)
             THEN best_operator_loop_no_value(arg, p, allowed_operators,
                                              i + 1, i - 1, op_len)
             ELSE best_operator_loop_no_value(arg, p, allowed_operators,
                                              i + 1, best, best_len)

\* the scan for the best operator, from index i, with the best so far
RECURSIVE best_operator_loop(_, _, _, _, _, _)
best_operator_loop(arg, p, allowed_operators, i, best, best_len) ==
    IF i > Len(allowed_operators)
    THEN [best |-> best, best_len |-> best_len]
    ELSE LET op     == allowed_operators[i]
             op_len == Len(op)
         IN  IF op_len > best_len /\ op_is_prefix(op, arg, p)
                /\ At(arg, p + op_len) # NUL
             THEN best_operator_loop(arg, p, allowed_operators, i + 1,
                                     i - 1, op_len)
             ELSE best_operator_loop(arg, p, allowed_operators, i + 1,
                                     best, best_len)

pckv_error(error) ==
    [error |-> error, column |-> NULL, has_key |-> FALSE, key |-> <<>>,
     operator |-> -1, has_value |-> FALSE, value |-> <<>>]

parse_column_key_value(arg, table, allowed_operators, want_value) ==
    LET name_tok == ovsdb_token_parse(arg, 1)
        col      == get_column(table, name_tok.token)
        p1       == name_tok.p
        has_key  == At(arg, p1) = ":"
        key_tok  == ovsdb_token_parse(arg, p1 + 1)
        p        == IF has_key THEN key_tok.p ELSE p1
        ops      == IF allowed_operators = <<>> THEN << <<"=">> >>
                    ELSE allowed_operators
        b        == best_operator_loop(arg, p, ops, 1, -1, 0)
    IN  IF name_tok.error # "" THEN pckv_error(name_tok.error)
        ELSE IF name_tok.token = <<>> THEN pckv_error("missing column name")
        ELSE IF col.error # "" THEN pckv_error(col.error)
        ELSE IF has_key /\ key_tok.error # "" THEN pckv_error(key_tok.error)
        ELSE IF want_value
        THEN IF b.best < 0
             THEN pckv_error("argument does not end in an operator followed by a value")
             ELSE [error |-> "", column |-> col.column,
                   has_key |-> has_key,
                   key |-> IF has_key THEN key_tok.token ELSE <<>>,
                   operator |-> b.best, has_value |-> TRUE,
                   value |-> SubSeq(arg, p + b.best_len, Len(arg))]
        ELSE IF At(arg, p) # NUL
             THEN pckv_error("trailing garbage in argument")
             ELSE [error |-> "", column |-> col.column,
                   has_key |-> has_key,
                   key |-> IF has_key THEN key_tok.token ELSE <<>>,
                   operator |-> -1, has_value |-> FALSE, value |-> <<>>]

(***************************************************************************)
(* The relational operators.                                               *)
(***************************************************************************)
RELOP_EQ == 0
RELOP_NE == 1
RELOP_LT == 2
RELOP_GT == 3
RELOP_LE == 4
RELOP_GE == 5
RELOP_SET_EQ == 6
RELOP_SET_NE == 7
RELOP_SET_LT == 8
RELOP_SET_GT == 9
RELOP_SET_LE == 10
RELOP_SET_GE == 11

\* the operators[] array of is_condition_satisfied
operators ==
    << <<"=">>, <<"!", "=">>, <<"<">>, <<">">>, <<"<", "=">>, <<">", "=">>,
       <<"{", "=", "}">>, <<"{", "!", "=", "}">>, <<"{", "<", "}">>,
       <<"{", ">", "}">>, <<"{", "<", "=", "}">>, <<"{", ">", "=", "}">> >>

is_set_operator(op) ==
    op \in {RELOP_SET_EQ, RELOP_SET_NE, RELOP_SET_LT, RELOP_SET_GT,
            RELOP_SET_LE, RELOP_SET_GE}

\* evaluate_relop with {<} and {>} deciding on inclusion alone
evaluate_relop_no_size(a, b, type, op) ==
    CASE op \in {RELOP_EQ, RELOP_SET_EQ} -> ovsdb_datum_compare_3way(a, b, type) = 0
      [] op \in {RELOP_NE, RELOP_SET_NE} -> ovsdb_datum_compare_3way(a, b, type) # 0
      [] op = RELOP_LT -> ovsdb_datum_compare_3way(a, b, type) < 0
      [] op = RELOP_GT -> ovsdb_datum_compare_3way(a, b, type) > 0
      [] op = RELOP_LE -> ovsdb_datum_compare_3way(a, b, type) <= 0
      [] op = RELOP_GE -> ovsdb_datum_compare_3way(a, b, type) >= 0
      [] op = RELOP_SET_LT -> ovsdb_datum_includes_all(a, b, type)
      [] op = RELOP_SET_GT -> ovsdb_datum_includes_all(b, a, type)
      [] op = RELOP_SET_LE -> ovsdb_datum_includes_all(a, b, type)
      [] op = RELOP_SET_GE -> ovsdb_datum_includes_all(b, a, type)

evaluate_relop(a, b, type, op) ==
    CASE op \in {RELOP_EQ, RELOP_SET_EQ} -> ovsdb_datum_compare_3way(a, b, type) = 0
      [] op \in {RELOP_NE, RELOP_SET_NE} -> ovsdb_datum_compare_3way(a, b, type) # 0
      [] op = RELOP_LT -> ovsdb_datum_compare_3way(a, b, type) < 0
      [] op = RELOP_GT -> ovsdb_datum_compare_3way(a, b, type) > 0
      [] op = RELOP_LE -> ovsdb_datum_compare_3way(a, b, type) <= 0
      [] op = RELOP_GE -> ovsdb_datum_compare_3way(a, b, type) >= 0
      [] op = RELOP_SET_LT -> b.n > a.n /\ ovsdb_datum_includes_all(a, b, type)
      [] op = RELOP_SET_GT -> a.n > b.n /\ ovsdb_datum_includes_all(b, a, type)
      [] op = RELOP_SET_LE -> ovsdb_datum_includes_all(a, b, type)
      [] op = RELOP_SET_GE -> ovsdb_datum_includes_all(b, a, type)

\* the type of column 'column' of 'table'
column_type(table, column) == table.class.columns[column].type

\* the result of is_condition_satisfied for a condition with a key: idx is
\* where the key is in have_datum, b the value wanted; with every operator
\* evaluated, also when the key is absent
key_retval_all_evaluated(have_datum, idx, b, type, operator) ==
    LET a == IF idx # UINT_MAX
             THEN [n |-> 1, keys |-> <<have_datum.values[idx]>>,
                   values |-> <<>>]
             ELSE [n |-> 0, keys |-> <<>>, values |-> <<>>]
    IN  evaluate_relop(a, b, type, operator)

key_retval(have_datum, idx, b, type, operator) ==
    IF idx = UINT_MAX /\ ~is_set_operator(operator)
    THEN FALSE
    ELSE LET a == IF idx # UINT_MAX
                  THEN [n |-> 1, keys |-> <<have_datum.values[idx]>>,
                        values |-> <<>>]
                  ELSE [n |-> 0, keys |-> <<>>, values |-> <<>>]
         IN  evaluate_relop(a, b, type, operator)

\* how is_condition_satisfied ends: in ctl_fatal with a message, or
\* returning retval
condition_fatal(msg, symtab) ==
    [fatal |-> msg, retval |-> FALSE, symtab |-> symtab]

condition_is(retval, symtab) ==
    [fatal |-> "", retval |-> retval, symtab |-> symtab]

\* the type of the values of a map of type 'type', as a set of any size
condition_value_type(type) ==
    [type EXCEPT !.key = type.value,
                 !.value = [type.value EXCEPT !.type = "void"],
                 !.n_max = UINT_MAX]

\* is_condition_satisfied with a key, once the value is parsed as b
condition_key_value(have_datum, key_type, want_key, type, operator, b) ==
    IF b.error # "" THEN condition_fatal(b.error, b.symtab)
    ELSE condition_is(key_retval(have_datum,
                          ovsdb_datum_find_key(have_datum, want_key, key_type),
                          b.datum, type, operator),
                      b.symtab)

\* ... once the key is parsed as want_key
condition_key(have_datum, ctype, want_key, value_string, operator) ==
    IF want_key.error # "" THEN condition_fatal(want_key.error, want_key.symtab)
    ELSE condition_key_value(have_datum, ctype.key.type, want_key.atom,
             condition_value_type(ctype), operator,
             ovsdb_datum_from_string(condition_value_type(ctype), value_string,
                                     want_key.symtab))

\* is_condition_satisfied without a key, once the value is parsed
condition_value(have_datum, type, operator, want_datum) ==
    IF want_datum.error # ""
    THEN condition_fatal(want_datum.error, want_datum.symtab)
    ELSE condition_is(evaluate_relop(have_datum, want_datum.datum, type,
                                     operator),
                      want_datum.symtab)

\* is_condition_satisfied once arg is parsed as r
condition_parsed(table, row, symtab, r) ==
    IF r.error # "" THEN condition_fatal(r.error, symtab)
    ELSE IF ~r.has_value THEN condition_fatal("missing value", symtab)
    ELSE IF r.has_key
    THEN IF column_type(table, r.column).value.type = "void"
         THEN condition_fatal("cannot specify key to check for non-map column",
                              symtab)
         ELSE condition_key(row.cols[r.column], column_type(table, r.column),
                  ovsdb_atom_from_string(column_type(table, r.column).key,
                                         r.key, symtab),
                  r.value, r.operator)
    ELSE condition_value(row.cols[r.column],
             [column_type(table, r.column) EXCEPT !.n_max = UINT_MAX],
             r.operator,
             ovsdb_datum_from_string(column_type(table, r.column), r.value,
                                     symtab))

\* is_condition_satisfied(table, row, arg, symtab), 'row' being the row's
\* record in the IDL: the ctl_fatal message if it ends in one, else the
\* value returned, and the symbol table after it
is_condition_satisfied(table, row, arg, symtab) ==
    condition_parsed(table, row, symtab,
                     parse_column_key_value(arg, table, operators, TRUE))

(***************************************************************************)
(* The row resolver.  The IDL's rows are a function from the uuids of the  *)
(* rows it holds to [table, cols]: the row's table (an index into          *)
(* 'tables') and its datums by column.  A row pointer is the row's uuid,   *)
(* NULL for none.  A ctl_row_id is [table, name_column, uuid_column].      *)
(***************************************************************************)
\* ovsdb_idl_first_row / ovsdb_idl_next_row: the rows of a table, in order
idl_rows(idl, class) ==
    LET S == { u \in DOMAIN idl : idl[u].table = class }
        RECURSIVE ordered(_)
        ordered(T) == IF T = {} THEN <<>>
                      ELSE LET u == CHOOSE x \in T : \A y \in T : x <= y
                           IN  <<u>> \o ordered(T \ {u})
    IN  ordered(S)

ovsdb_idl_get_row_for_uuid(idl, class, uuid) ==
    IF uuid \in DOMAIN idl /\ idl[uuid].table = class THEN uuid ELSE NULL

\* a scan that keeps the last matching row
RECURSIVE referrer_loop_last_wins(_, _, _, _, _, _)
referrer_loop_last_wins(idl, rows, id, record_id, i, referrer) ==
    IF i > Len(rows) THEN [fatal |-> "", referrer |-> referrer]
    ELSE LET name == idl[rows[i]].cols[id.name_column]
         IN  IF name.n = 1 /\ strcmp(name.keys[1], record_id) = 0
             THEN referrer_loop_last_wins(idl, rows, id, record_id, i + 1,
                                          rows[i])
             ELSE referrer_loop_last_wins(idl, rows, id, record_id, i + 1,
                                          referrer)

\* the row scan of get_row_by_id from the i'th row, 'referrer' being the
\* match so far
RECURSIVE referrer_loop(_, _, _, _, _, _)
referrer_loop(idl, rows, id, record_id, i, referrer) ==
    IF i > Len(rows) THEN [fatal |-> "", referrer |-> referrer]
    ELSE LET name == idl[rows[i]].cols[id.name_column]
         IN  IF name.n = 1 /\ strcmp(name.keys[1], record_id) = 0
             THEN IF referrer # NULL
                  THEN [fatal |-> "multiple rows match", referrer |-> referrer]
                  ELSE referrer_loop(idl, rows, id, record_id, i + 1, rows[i])
             ELSE referrer_loop(idl, rows, id, record_id, i + 1, referrer)

\* what get_row_by_id and get_row give: the ctl_fatal message if they end
\* in one, the row returned, and the (row, column) pairs they have handed
\* to ovsdb_idl_txn_verify
row_none == [fatal |-> "", row |-> NULL, verify |-> {}]

\* get_row_by_id from "if (!referrer)" on
get_row_by_id_final(idl, table, id, referrer) ==
    IF referrer = NULL THEN row_none
    ELSE IF id.uuid_column # NULL
    THEN [fatal  |-> "",
          row    |-> IF idl[referrer].cols[id.uuid_column].n = 1
                     THEN ovsdb_idl_get_row_for_uuid(idl, table,
                              idl[referrer].cols[id.uuid_column].keys[1])
                     ELSE NULL,
          verify |-> {<<referrer, id.uuid_column>>}]
    ELSE [fatal |-> "", row |-> referrer, verify |-> {}]

\* get_row_by_id once the rows of id->table have been scanned
get_row_by_id_scanned(idl, table, id, scan) ==
    IF scan.fatal # ""
    THEN [fatal |-> scan.fatal, row |-> NULL, verify |-> {}]
    ELSE get_row_by_id_final(idl, table, id, scan.referrer)

\* get_row_by_id(ctx, table, id, record_id), 'table' an index into 'tables'
get_row_by_id(idl, table, id, record_id) ==
    IF id.table = NULL THEN row_none
    ELSE IF id.name_column = NULL
    THEN IF strcmp(record_id, <<".">>) # 0 THEN row_none
         ELSE get_row_by_id_final(idl, table, id,
                  IF Len(idl_rows(idl, id.table)) = 1
                  THEN idl_rows(idl, id.table)[1] ELSE NULL)
    ELSE get_row_by_id_scanned(idl, table, id,
             referrer_loop(idl, idl_rows(idl, id.table), id, record_id, 1, NULL))

\* the loop of get_row over table->row_ids, from descriptor i, and its body
\* once get_row_by_id has returned r
RECURSIVE get_row_loop(_, _, _, _, _)
RECURSIVE get_row_step_no_break(_, _, _, _, _, _)
RECURSIVE get_row_step(_, _, _, _, _, _)

\* a body that goes on to the next descriptor although this one gave a row
get_row_step_no_break(idl, table, record_id, i, verify, r) ==
    IF r.fatal # "" THEN [r EXCEPT !.verify = verify \cup r.verify]
    ELSE IF get_row_loop(idl, table, record_id, i + 1, verify).row # NULL
         THEN get_row_loop(idl, table, record_id, i + 1, verify \cup r.verify)
         ELSE [r EXCEPT !.verify = verify \cup r.verify]

get_row_step(idl, table, record_id, i, verify, r) ==
    IF r.fatal # "" \/ r.row # NULL
    THEN [r EXCEPT !.verify = verify \cup r.verify]
    ELSE get_row_loop(idl, table, record_id, i + 1, verify \cup r.verify)

get_row_loop(idl, table, record_id, i, verify) ==
    IF i > Len(tables[table].row_ids)
    THEN [fatal |-> "", row |-> NULL, verify |-> verify]
    ELSE get_row_step(idl, table, record_id, i, verify,
             get_row_by_id(idl, table, tables[table].row_ids[i], record_id))

\* get_row from "if (must_exist && !row)" on
get_row_found(must_exist, r) ==
    IF r.fatal = "" /\ must_exist /\ r.row = NULL
    THEN [r EXCEPT !.fatal = "no row in table"]
    ELSE r

\* get_row(ctx, table, record_id, must_exist)
get_row(idl, table, record_id, must_exist) ==
    get_row_found(must_exist,
        IF uuid_from_string(record_id).ok
           /\ ovsdb_idl_get_row_for_uuid(idl, table,
                  uuid_from_string(record_id).uuid) # NULL
        THEN [fatal  |-> "",
              row    |-> ovsdb_idl_get_row_for_uuid(idl, table,
                             uuid_from_string(record_id).uuid),
              verify |-> {}]
        ELSE get_row_loop(idl, table, record_id, 1, {}))

(***************************************************************************)
(* The context of a run.  A ctl_context c holds the command being run      *)
(* (c.argv, c.options, c.output, c.try_again), the IDL's rows as the       *)
(* commands read them (c.idl, the transaction's writes included), the      *)
(* transaction (c.txn), the symbol table, whether the invalidate_cache     *)
(* hook is set and how often it has been called, and how the process has   *)
(* ended: c.error is the message of ctl_fatal ("" for none) and c.status   *)
(* the status the process has exited with ("running" until then).          *)
(* c.argv[1] is the command's name, so that C's argv[i] is c.argv[i + 1];  *)
(* c.options is [has_id, id, if_exists].  c.commands are the commands      *)
(* completed, and c.created the ids whose symbol was marked created.       *)
(***************************************************************************)
\* exit(status), after ctl_exit_func
ctl_exit(c, status) == [c EXCEPT !.status = status]

\* a ctl_fatal that logs the message and returns
ctl_fatal_returns(c, message) == [c EXCEPT !.error = message]

ctl_fatal(c, message) == ctl_exit([c EXCEPT !.error = message], "EXIT_FAILURE")

invalidate_cache(c) ==
    IF c.error # "" THEN c
    ELSE IF c.invalidate_cache THEN [c EXCEPT !.hook = @ + 1]
    ELSE c

\* ovsdb_idl_read(row, column)
ovsdb_idl_read(c, row, column) == c.idl[row].cols[column]

\* ovsdb_idl_txn_verify(row, column), and the same for a set of pairs
ovsdb_idl_txn_verify(c, row, column) ==
    [c EXCEPT !.txn.verify = @ \cup {<<row, column>>}]

txn_verified(c, pairs) == [c EXCEPT !.txn.verify = @ \cup pairs]

\* ovsdb_idl_txn_write(row, column, datum)
ovsdb_idl_txn_write(c, row, column, datum) ==
    [c EXCEPT !.idl[row].cols[column] = datum,
              !.txn.writes = Append(@, [row |-> row, column |-> column,
                                        datum |-> datum])]

\* ovsdb_idl_is_mutable(row, column)
ovsdb_idl_is_mutable(c, row, column) ==
    \/ tables[c.idl[row].table].class.columns[column].mutable
    \/ row \in c.txn.inserted

\* ovsdb_datum_init_default(&datum, type)
ovsdb_atom_default(base_type) ==
    IF base_type = "string" THEN <<>> ELSE 0

ovsdb_datum_init_default(type) ==
    IF type.n_min = 0 THEN ovsdb_datum_init_empty
    ELSE [n      |-> 1,
          keys   |-> <<ovsdb_atom_default(type.key.type)>>,
          values |-> IF ovsdb_type_is_map(type)
                     THEN <<ovsdb_atom_default(type.value.type)>> ELSE <<>>]

\* ovsdb_idl_txn_insert(txn, class, uuid) for a uuid already chosen, and
\* the uuid it chooses when given none
insert_uuid(c, uuid) ==
    IF uuid = NULL THEN InsertUuid(Cardinality(c.txn.inserted) + 1) ELSE uuid

ovsdb_idl_txn_insert(c, table, uuid) ==
    [c EXCEPT !.idl = (uuid :> [table |-> table,
                                cols  |-> [i \in DOMAIN tables[table].class.columns |->
                                             ovsdb_datum_init_default(
                                                 column_type(tables[table], i))]])
                      @@ @,
              !.txn.inserted = @ \cup {uuid}]

\* create_symbol(symtab, id, &new) without the test of symbol->created
create_symbol_unchecked(symtab, id) ==
    IF At(id, 1) # "@"
    THEN [fatal |-> "row id does not begin with \"@\"", symtab |-> symtab,
          new |-> FALSE]
    ELSE [fatal  |-> "",
          symtab |-> [ovsdb_symbol_table_insert(symtab, id)
                        EXCEPT ![id].created = TRUE],
          new    |-> ~ovsdb_symbol_table_get(symtab, id)]

\* create_symbol(symtab, id, &new) with *newp assigned after the insertion
create_symbol_new_late(symtab, id) ==
    IF At(id, 1) # "@"
    THEN [fatal |-> "row id does not begin with \"@\"", symtab |-> symtab,
          new |-> FALSE]
    ELSE IF ovsdb_symbol_table_insert(symtab, id)[id].created
    THEN [fatal  |-> "row id may only be specified on one --id option",
          symtab |-> ovsdb_symbol_table_insert(symtab, id),
          new    |-> FALSE]
    ELSE [fatal  |-> "",
          symtab |-> [ovsdb_symbol_table_insert(symtab, id)
                        EXCEPT ![id].created = TRUE],
          new    |-> FALSE]

\* create_symbol(symtab, id, &new): the ctl_fatal message if it ends in
\* one, the symbol table after it and what *newp is given; the symbol
\* returned is symtab[id]
create_symbol(symtab, id) ==
    IF At(id, 1) # "@"
    THEN [fatal |-> "row id does not begin with \"@\"", symtab |-> symtab,
          new |-> FALSE]
    ELSE IF ovsdb_symbol_table_insert(symtab, id)[id].created
    THEN [fatal  |-> "row id may only be specified on one --id option",
          symtab |-> ovsdb_symbol_table_insert(symtab, id),
          new    |-> ~ovsdb_symbol_table_get(symtab, id)]
    ELSE [fatal  |-> "",
          symtab |-> [ovsdb_symbol_table_insert(symtab, id)
                        EXCEPT ![id].created = TRUE],
          new    |-> ~ovsdb_symbol_table_get(symtab, id)]

\* the context after create_symbol has returned s for id
symbol_created(c, id, s) ==
    [c EXCEPT !.symtab  = s.symtab,
              !.created = IF s.fatal = "" THEN Append(@, id) ELSE @]

(***************************************************************************)
(* The commands.  A handler gives the context after it; once ctl_fatal    *)
(* has been called (c.error is set) nothing more of the handler is done.   *)
(***************************************************************************)
\* a check_mutable that lets every column through
check_mutable_skipped(c, row, column) == c

check_mutable(c, row, column) ==
    IF ~ovsdb_idl_is_mutable(c, row, column)
    THEN ctl_fatal(c, "cannot modify read-only column")
    ELSE c

\* a set_column that adds the pair to the map read, which keeps its own
\* binding of the key
set_column_key_value_adds(c, row, column, type, key, value) ==
    IF value.error # ""
    THEN ctl_fatal([c EXCEPT !.symtab = value.symtab], value.error)
    ELSE ovsdb_idl_txn_write(
             ovsdb_idl_txn_verify([c EXCEPT !.symtab = value.symtab],
                                  row, column),
             row, column,
             ovsdb_datum_union(
                 ovsdb_idl_read(c, row, column),
                 ovsdb_datum_add_unsafe(ovsdb_datum_init_empty, key.atom,
                                        value.atom, type),
                 type))

\* set_column for COLUMN:KEY=VALUE, 'value' being the value atom parsed
set_column_key_value(c, row, column, type, key, value) ==
    IF value.error # ""
    THEN ctl_fatal([c EXCEPT !.symtab = value.symtab], value.error)
    ELSE ovsdb_idl_txn_write(
             ovsdb_idl_txn_verify([c EXCEPT !.symtab = value.symtab],
                                  row, column),
             row, column,
             ovsdb_datum_union(
                 ovsdb_datum_add_unsafe(ovsdb_datum_init_empty, key.atom,
                                        value.atom, type),
                 ovsdb_idl_read(c, row, column), type))

\* set_column for COLUMN:KEY=VALUE, 'key' being the key atom parsed
set_column_key(c, row, column, type, r, key) ==
    IF key.error # ""
    THEN ctl_fatal([c EXCEPT !.symtab = key.symtab], key.error)
    ELSE set_column_key_value(c, row, column, type, key,
             ovsdb_atom_from_string(type.value, r.value, key.symtab))

\* set_column for COLUMN=VALUE, d being the datum parsed
set_column_value(c, row, column, d) ==
    IF d.error # ""
    THEN ctl_fatal([c EXCEPT !.symtab = d.symtab], d.error)
    ELSE ovsdb_idl_txn_write([c EXCEPT !.symtab = d.symtab], row, column,
                             d.datum)

\* set_column after check_mutable
set_column_checked(c, row, type, r) ==
    IF c.error # "" THEN c
    ELSE IF r.has_key
    THEN IF type.value.type = "void"
         THEN ctl_fatal(c, "cannot specify key to set for non-map column")
         ELSE set_column_key(c, row, r.column, type, r,
                  ovsdb_atom_from_string(type.key, r.key, c.symtab))
    ELSE set_column_value(c, row, r.column,
             ovsdb_datum_from_string(type, r.value, c.symtab))

\* set_column once parse_column_key_value has returned r
set_column_parsed(c, table, row, r) ==
    IF r.error # "" THEN ctl_fatal(c, r.error)
    ELSE IF ~r.has_value THEN ctl_fatal(c, "missing value")
    ELSE set_column_checked(check_mutable(c, row, r.column), row,
                            column_type(tables[table], r.column), r)

\* set_column(table, row, arg, ctx->symtab)
set_column(c, table, row, arg) ==
    set_column_parsed(c, table, row,
        parse_column_key_value(arg, tables[table], <<>>, TRUE))

\* for (i = first; i < ctx->argc; i++) set_column(table, row, ctx->argv[i])
RECURSIVE set_columns(_, _, _, _)
set_columns(c, table, row, i) ==
    IF c.error # "" \/ i > Len(c.argv) THEN c
    ELSE set_columns(set_column(c, table, row, c.argv[i]), table, row, i + 1)

must_exist(c) == ~c.options.if_exists

\* a cmd_set that calls the hook when there is no row too
cmd_set_row_invalidates(c, table, r) ==
    IF r.fatal # "" THEN ctl_fatal(txn_verified(c, r.verify), r.fatal)
    ELSE IF r.row = NULL THEN invalidate_cache(txn_verified(c, r.verify))
    ELSE invalidate_cache(
             set_columns(txn_verified(c, r.verify), table, r.row, 4))

\* cmd_set once get_row has returned r
cmd_set_row(c, table, r) ==
    IF r.fatal # "" THEN ctl_fatal(txn_verified(c, r.verify), r.fatal)
    ELSE IF r.row = NULL THEN txn_verified(c, r.verify)
    ELSE invalidate_cache(
             set_columns(txn_verified(c, r.verify), table, r.row, 4))

\* cmd_set once get_table has returned t
cmd_set_table(c, t) ==
    IF t.fatal # "" THEN ctl_fatal(c, t.fatal)
    ELSE cmd_set_row(c, t.table,
                     get_row(c.idl, t.table, c.argv[3], must_exist(c)))

cmd_set(c) == cmd_set_table(c, get_table(c.argv[2]))

\* the type cmd_add parses its values with
add_type(type) == [type EXCEPT !.n_min = 1, !.n_max = UINT_MAX]

\* the loop of cmd_add over its values from argv[i], 'old' being the datum
\* so far: the error of the parser if there is one
RECURSIVE add_loop(_, _, _, _)
RECURSIVE add_step(_, _, _, _, _)
RECURSIVE add_step_replace(_, _, _, _, _)
RECURSIVE add_step_overrides(_, _, _, _, _)
\* a loop body whose union lets the pair parsed win over the pair held
add_step_overrides(c, type, i, old, add) ==
    IF add.error # ""
    THEN [error |-> add.error, symtab |-> add.symtab, old |-> old]
    ELSE add_loop([c EXCEPT !.symtab = add.symtab], type, i + 1,
                  ovsdb_datum_union(add.datum, old, type))

\* a loop body that keeps the value parsed in place of the union
add_step_replace(c, type, i, old, add) ==
    IF add.error # ""
    THEN [error |-> add.error, symtab |-> add.symtab, old |-> old]
    ELSE add_loop([c EXCEPT !.symtab = add.symtab], type, i + 1, add.datum)

add_step(c, type, i, old, add) ==
    IF add.error # ""
    THEN [error |-> add.error, symtab |-> add.symtab, old |-> old]
    ELSE add_loop([c EXCEPT !.symtab = add.symtab], type, i + 1,
                  ovsdb_datum_union(old, add.datum, type))

add_loop(c, type, i, old) ==
    IF i > Len(c.argv)
    THEN [error |-> "", symtab |-> c.symtab, old |-> old]
    ELSE add_step(c, type, i, old,
             ovsdb_datum_from_string(add_type(type), c.argv[i], c.symtab))

\* cmd_add after its loop
cmd_add_done(c, row, column, type, a) ==
    IF a.error # "" THEN ctl_fatal([c EXCEPT !.symtab = a.symtab], a.error)
    ELSE IF a.old.n > type.n_max
    THEN ctl_fatal([c EXCEPT !.symtab = a.symtab],
                   "\"add\" operation would put too many values in column")
    ELSE invalidate_cache(
             ovsdb_idl_txn_write(
                 ovsdb_idl_txn_verify([c EXCEPT !.symtab = a.symtab],
                                      row, column),
                 row, column, a.old))

\* cmd_add after check_mutable
cmd_add_checked(c, row, column, type) ==
    IF c.error # "" THEN c
    ELSE cmd_add_done(c, row, column, type,
                      add_loop(c, type, 5, ovsdb_idl_read(c, row, column)))

\* cmd_add once get_row has returned r
cmd_add_row(c, table, column, r) ==
    IF r.fatal # "" THEN ctl_fatal(txn_verified(c, r.verify), r.fatal)
    ELSE IF r.row = NULL THEN txn_verified(c, r.verify)
    ELSE cmd_add_checked(
             check_mutable(txn_verified(c, r.verify), r.row, column),
             r.row, column, column_type(tables[table], column))

\* cmd_add once get_column has returned col
cmd_add_column(c, table, col) ==
    IF col.error # "" THEN ctl_fatal(c, col.error)
    ELSE cmd_add_row(c, table, col.column,
                     get_row(c.idl, table, c.argv[3], must_exist(c)))

cmd_add_table(c, t) ==
    IF t.fatal # "" THEN ctl_fatal(c, t.fatal)
    ELSE cmd_add_column(c, t.table, get_column(tables[t.table], c.argv[4]))

cmd_add(c) == cmd_add_table(c, get_table(c.argv[2]))

\* the types cmd_remove parses its values with: first pairs, then keys
rm_type(type) == [type EXCEPT !.n_min = 1, !.n_max = UINT_MAX]

rm_type_keys(type) == [rm_type(type) EXCEPT !.value.type = "void"]

\* the loop of cmd_remove over its values from argv[i], 'old' being the
\* datum so far: the error of the parser if there is one
RECURSIVE remove_loop(_, _, _, _)
RECURSIVE remove_keys(_, _, _, _, _)
RECURSIVE remove_step(_, _, _, _, _)
RECURSIVE remove_step_no_retry(_, _, _, _, _)
\* a loop body for which the first parse error is final on a map as well
remove_step_no_retry(c, type, i, old, rm) ==
    IF rm.error # ""
    THEN [error |-> rm.error, symtab |-> rm.symtab, old |-> old]
    ELSE remove_loop([c EXCEPT !.symtab = rm.symtab], type, i + 1,
                     ovsdb_datum_subtract(old, type, rm.datum, rm_type(type)))

remove_keys(c, type, i, old, rm) ==
    IF rm.error # ""
    THEN [error |-> rm.error, symtab |-> rm.symtab, old |-> old]
    ELSE remove_loop([c EXCEPT !.symtab = rm.symtab], type, i + 1,
                     ovsdb_datum_subtract(old, type, rm.datum,
                                          rm_type_keys(type)))

remove_step(c, type, i, old, rm) ==
    IF rm.error # ""
    THEN IF ovsdb_type_is_map(rm_type(type))
         THEN remove_keys(c, type, i, old,
                  ovsdb_datum_from_string(rm_type_keys(type), c.argv[i],
                                          rm.symtab))
         ELSE [error |-> rm.error, symtab |-> rm.symtab, old |-> old]
    ELSE remove_loop([c EXCEPT !.symtab = rm.symtab], type, i + 1,
                     ovsdb_datum_subtract(old, type, rm.datum, rm_type(type)))

remove_loop(c, type, i, old) ==
    IF i > Len(c.argv)
    THEN [error |-> "", symtab |-> c.symtab, old |-> old]
    ELSE remove_step(c, type, i, old,
             ovsdb_datum_from_string(rm_type(type), c.argv[i], c.symtab))

\* cmd_remove after its loop
cmd_remove_done(c, row, column, type, a) ==
    IF a.error # "" THEN ctl_fatal([c EXCEPT !.symtab = a.symtab], a.error)
    ELSE IF a.old.n < type.n_min
    THEN ctl_fatal([c EXCEPT !.symtab = a.symtab],
                   "\"remove\" operation would put too few values in column")
    ELSE invalidate_cache(
             ovsdb_idl_txn_write(
                 ovsdb_idl_txn_verify([c EXCEPT !.symtab = a.symtab],
                                      row, column),
                 row, column, a.old))

\* cmd_remove after check_mutable
cmd_remove_checked(c, row, column, type) ==
    IF c.error # "" THEN c
    ELSE cmd_remove_done(c, row, column, type,
             remove_loop(c, type, 5, ovsdb_idl_read(c, row, column)))

\* cmd_remove once get_row has returned r
cmd_remove_row(c, table, column, r) ==
    IF r.fatal # "" THEN ctl_fatal(txn_verified(c, r.verify), r.fatal)
    ELSE IF r.row = NULL THEN txn_verified(c, r.verify)
    ELSE cmd_remove_checked(
             check_mutable(txn_verified(c, r.verify), r.row, column),
             r.row, column, column_type(tables[table], column))

\* cmd_remove once get_column has returned col
cmd_remove_column(c, table, col) ==
    IF col.error # "" THEN ctl_fatal(c, col.error)
    ELSE cmd_remove_row(c, table, col.column,
                        get_row(c.idl, table, c.argv[3], must_exist(c)))

cmd_remove_table(c, t) ==
    IF t.fatal # "" THEN ctl_fatal(c, t.fatal)
    ELSE cmd_remove_column(c, t.table,
                           get_column(tables[t.table], c.argv[4]))

cmd_remove(c) == cmd_remove_table(c, get_table(c.argv[2]))

\* a body that writes the empty datum whatever n_min is
clear_column_any(c, row, column, type) ==
    IF c.error # "" THEN c
    ELSE ovsdb_idl_txn_write(c, row, column, ovsdb_datum_init_empty)

\* the body of cmd_clear's loop after check_mutable
clear_column_checked(c, row, column, type) ==
    IF c.error # "" THEN c
    ELSE IF type.n_min > 0
    THEN ctl_fatal(c, "\"clear\" operation cannot be applied to column")
    ELSE ovsdb_idl_txn_write(c, row, column, ovsdb_datum_init_empty)

\* the body of cmd_clear's loop once get_column has returned col
clear_column(c, table, row, col) ==
    IF col.error # "" THEN ctl_fatal(c, col.error)
    ELSE clear_column_checked(check_mutable(c, row, col.column), row,
                              col.column,
                              column_type(tables[table], col.column))

\* the loop of cmd_clear from argv[i]
RECURSIVE clear_columns(_, _, _, _)
clear_columns(c, table, row, i) ==
    IF c.error # "" \/ i > Len(c.argv) THEN c
    ELSE clear_columns(
             clear_column(c, table, row,
                          get_column(tables[table], c.argv[i])),
             table, row, i + 1)

\* cmd_clear once get_row has returned r
cmd_clear_row(c, table, r) ==
    IF r.fatal # "" THEN ctl_fatal(txn_verified(c, r.verify), r.fatal)
    ELSE IF r.row = NULL THEN txn_verified(c, r.verify)
    ELSE invalidate_cache(
             clear_columns(txn_verified(c, r.verify), table, r.row, 4))

cmd_clear_table(c, t) ==
    IF t.fatal # "" THEN ctl_fatal(c, t.fatal)
    ELSE cmd_clear_row(c, t.table,
                       get_row(c.idl, t.table, c.argv[3], must_exist(c)))

cmd_clear(c) == cmd_clear_table(c, get_table(c.argv[2]))

\* ovsdb_idl_txn_delete(row): the row is gone from the rows the commands
\* see; a row inserted in this transaction is no longer inserted
ovsdb_idl_txn_delete(c, row) ==
    [c EXCEPT !.idl = [u \in DOMAIN c.idl \ {row} |-> c.idl[u]],
              !.txn.inserted = @ \ {row},
              !.txn.deleted = IF row \in c.txn.inserted THEN @
                              ELSE @ \cup {row}]

\* the loop of cmd_destroy --all over 'rows' from the i-th
RECURSIVE destroy_all(_, _, _)
destroy_all(c, rows, i) ==
    IF i > Len(rows) THEN c
    ELSE destroy_all(ovsdb_idl_txn_delete(c, rows[i]), rows, i + 1)

\* the loop of cmd_destroy over the records from argv[i], and its body
\* once get_row has returned r
RECURSIVE destroy_loop(_, _, _)
RECURSIVE destroy_step(_, _, _, _)

destroy_step(c, table, i, r) ==
    IF r.fatal # "" THEN ctl_fatal(txn_verified(c, r.verify), r.fatal)
    ELSE IF r.row = NULL
    THEN destroy_loop(txn_verified(c, r.verify), table, i + 1)
    ELSE destroy_loop(ovsdb_idl_txn_delete(txn_verified(c, r.verify), r.row),
                      table, i + 1)

destroy_loop(c, table, i) ==
    IF c.error # "" \/ i > Len(c.argv) THEN c
    ELSE destroy_step(c, table, i,
                      get_row(c.idl, table, c.argv[i], must_exist(c)))

\* cmd_destroy once get_table has returned t
cmd_destroy_table(c, t) ==
    IF t.fatal # "" THEN ctl_fatal(c, t.fatal)
    ELSE IF c.options.all /\ Len(c.argv) > 2
    THEN ctl_fatal(c, "--all and records argument should not be specified together")
    ELSE IF c.options.all /\ ~must_exist(c)
    THEN ctl_fatal(c, "--all and --if-exists should not be specified together")
    ELSE IF c.options.all
    THEN invalidate_cache(destroy_all(c, idl_rows(c.idl, t.table), 1))
    ELSE invalidate_cache(destroy_loop(c, t.table, 3))

cmd_destroy(c) == cmd_destroy_table(c, get_table(c.argv[2]))

\* cmd_create from ovsdb_idl_txn_insert on, 'row' being the new row
cmd_create_output(c, row) ==
    IF c.error # "" THEN c
    ELSE [c EXCEPT !.output = @ \o uuid_to_string(row)]

cmd_create_insert(c, table, row) ==
    cmd_create_output(
        set_columns(ovsdb_idl_txn_insert(c, table, row), table, row, 3),
        row)

\* cmd_create once create_symbol has returned s
cmd_create_symbol(c, table, s) ==
    IF s.fatal # "" THEN ctl_fatal(symbol_created(c, c.options.id, s), s.fatal)
    ELSE cmd_create_insert(
             symbol_created(c, c.options.id,
                 IF tables[table].class.is_root
                 THEN [s EXCEPT !.symtab[c.options.id].strong_ref = TRUE]
                 ELSE s),
             table, s.symtab[c.options.id].uuid)

cmd_create_table(c, t) ==
    IF t.fatal # "" THEN ctl_fatal(c, t.fatal)
    ELSE IF c.options.has_id
    THEN cmd_create_symbol(c, t.table, create_symbol(c.symtab, c.options.id))
    ELSE cmd_create_insert(c, t.table, insert_uuid(c, NULL))

cmd_create(c) == cmd_create_table(c, get_table(c.argv[2]))

\* the loop of cmd_wait_until over its conditions from argv[i], and its
\* body once is_condition_satisfied has returned r
RECURSIVE wait_conditions(_, _, _, _)
RECURSIVE wait_condition_all(_, _, _, _, _)
RECURSIVE wait_condition(_, _, _, _, _)

\* a body that goes on to the next condition after one that is false
wait_condition_all(c, table, row, i, r) ==
    IF r.fatal # "" THEN ctl_fatal([c EXCEPT !.symtab = r.symtab], r.fatal)
    ELSE IF ~r.retval
    THEN wait_conditions([c EXCEPT !.symtab = r.symtab, !.try_again = TRUE],
                         table, row, i + 1)
    ELSE wait_conditions([c EXCEPT !.symtab = r.symtab], table, row, i + 1)

wait_condition(c, table, row, i, r) ==
    IF r.fatal # "" THEN ctl_fatal([c EXCEPT !.symtab = r.symtab], r.fatal)
    ELSE IF ~r.retval
    THEN [c EXCEPT !.symtab = r.symtab, !.try_again = TRUE]
    ELSE wait_conditions([c EXCEPT !.symtab = r.symtab], table, row, i + 1)

wait_conditions(c, table, row, i) ==
    IF c.error # "" \/ i > Len(c.argv) THEN c
    ELSE wait_condition(c, table, row, i,
             is_condition_satisfied(tables[table], c.idl[row], c.argv[i],
                                    c.symtab))

\* cmd_wait_until once get_row has returned r
cmd_wait_until_row(c, table, r) ==
    IF r.fatal # "" THEN ctl_fatal(txn_verified(c, r.verify), r.fatal)
    ELSE IF r.row = NULL
    THEN [txn_verified(c, r.verify) EXCEPT !.try_again = TRUE]
    ELSE wait_conditions(txn_verified(c, r.verify), table, r.row, 4)

cmd_wait_until_table(c, t) ==
    IF t.fatal # "" THEN ctl_fatal(c, t.fatal)
    ELSE cmd_wait_until_row(c, t.table,
                            get_row(c.idl, t.table, c.argv[3], FALSE))

cmd_wait_until(c) == cmd_wait_until_table(c, get_table(c.argv[2]))

\* ovsdb_idl_txn_get_insert_uuid(txn, uuid): the permanent uuid of the row
\* inserted as 'uuid', NULL when the transaction has none for it
ovsdb_idl_txn_get_insert_uuid(txn, uuid) ==
    IF uuid \in DOMAIN txn.real THEN txn.real[uuid] ELSE NULL

\* a post_create that appends no new-line
post_create_no_newline(c) ==
    IF ~uuid_from_string(c.output).ok
    THEN ctl_exit(c, "OVS_NOT_REACHED")
    ELSE IF ovsdb_idl_txn_get_insert_uuid(
                c.txn, uuid_from_string(c.output).uuid) # NULL
    THEN [c EXCEPT !.output = uuid_to_string(
                       ovsdb_idl_txn_get_insert_uuid(
                           c.txn, uuid_from_string(c.output).uuid))]
    ELSE c

\* post_create(ctx)
post_create(c) ==
    IF ~uuid_from_string(c.output).ok
    THEN ctl_exit(c, "OVS_NOT_REACHED")
    ELSE IF ovsdb_idl_txn_get_insert_uuid(
                c.txn, uuid_from_string(c.output).uuid) # NULL
    THEN [c EXCEPT !.output = uuid_to_string(
                       ovsdb_idl_txn_get_insert_uuid(
                           c.txn, uuid_from_string(c.output).uuid))
                   \o <<"\n">>]
    ELSE [c EXCEPT !.output = @ \o <<"\n">>]

\* ovsdb_atom_to_string and ovsdb_datum_to_string (ovsdb-data.c)
ovsdb_atom_to_string(atom, base_type) ==
    CASE base_type = "integer" ->
           IF atom \in DOMAIN Digits THEN <<Digits[atom]>> ELSE <<"0">>
      [] base_type = "uuid" -> uuid_to_string(atom)
      [] OTHER -> atom

RECURSIVE datum_elements_to_string(_, _, _)
datum_elements_to_string(datum, type, i) ==
    IF i > datum.n THEN <<>>
    ELSE (IF i > 1 THEN <<",", " ">> ELSE <<>>)
         \o ovsdb_atom_to_string(datum.keys[i], type.key.type)
         \o (IF ovsdb_type_is_map(type)
             THEN <<"=">> \o ovsdb_atom_to_string(datum.values[i],
                                                  type.value.type)
             ELSE <<>>)
         \o datum_elements_to_string(datum, type, i + 1)

ovsdb_datum_to_string(datum, type) ==
    IF type.n_max > 1 \/ datum.n = 0
    THEN <<IF ovsdb_type_is_map(type) THEN "{" ELSE "[">>
         \o datum_elements_to_string(datum, type, 1)
         \o <<IF ovsdb_type_is_map(type) THEN "}" ELSE "]">>
    ELSE datum_elements_to_string(datum, type, 1)

\* strcasecmp(a, b) = 0
strcaseeq(a, b) ==
    /\ Len(a) = Len(b)
    /\ \A i \in 1..Len(a) : tolower(a[i]) = tolower(b[i])

\* the body of cmd_get's loop for COLUMN:KEY, 'key' being the key parsed
get_column_key(c, row, column, type, key) ==
    IF key.error # ""
    THEN ctl_fatal([c EXCEPT !.symtab = key.symtab], key.error)
    ELSE IF ovsdb_datum_find_key(ovsdb_idl_read(c, row, column), key.atom,
                                 type.key.type) = UINT_MAX
    THEN IF must_exist(c)
         THEN ctl_fatal([c EXCEPT !.symtab = key.symtab], "no key in record")
         ELSE [c EXCEPT !.symtab = key.symtab, !.output = @ \o <<"\n">>]
    ELSE [c EXCEPT !.symtab = key.symtab,
                   !.output = @ \o ovsdb_atom_to_string(
                                       ovsdb_idl_read(c, row, column).values[
                                           ovsdb_datum_find_key(
                                               ovsdb_idl_read(c, row, column),
                                               key.atom, type.key.type)],
                                       type.value.type)
                                \o <<"\n">>]

\* the body of cmd_get's loop once parse_column_key_value has returned r
get_column_parsed(c, table, row, r) ==
    IF r.error # "" THEN ctl_fatal(c, r.error)
    ELSE IF r.has_key
    THEN IF column_type(tables[table], r.column).value.type = "void"
         THEN ctl_fatal(ovsdb_idl_txn_verify(c, row, r.column),
                        "cannot specify key to get for non-map column")
         ELSE get_column_key(ovsdb_idl_txn_verify(c, row, r.column), row,
                  r.column, column_type(tables[table], r.column),
                  ovsdb_atom_from_string(
                      column_type(tables[table], r.column).key, r.key,
                      c.symtab))
    ELSE [ovsdb_idl_txn_verify(c, row, r.column)
            EXCEPT !.output = @ \o ovsdb_datum_to_string(
                                       ovsdb_idl_read(c, row, r.column),
                                       column_type(tables[table], r.column))
                                \o <<"\n">>]

\* the loop of cmd_get from argv[i]
RECURSIVE get_columns(_, _, _, _)
get_columns(c, table, row, i) ==
    IF c.error # "" \/ i > Len(c.argv) THEN c
    ELSE IF \/ strcaseeq(c.argv[i], <<"_", "u", "u", "i", "d">>)
            \/ strcaseeq(c.argv[i], <<"-", "u", "u", "i", "d">>)
    THEN get_columns([c EXCEPT !.output = @ \o uuid_to_string(row)
                                            \o <<"\n">>],
                     table, row, i + 1)
    ELSE get_columns(
             get_column_parsed(c, table, row,
                 parse_column_key_value(c.argv[i], tables[table], <<>>, FALSE)),
             table, row, i + 1)

\* cmd_get once create_symbol has returned s
cmd_get_symbol(c, table, row, s) ==
    IF s.fatal # "" THEN ctl_fatal(symbol_created(c, c.options.id, s), s.fatal)
    ELSE IF ~s.new
    THEN ctl_fatal(symbol_created(c, c.options.id, s),
                   "row id specified on \"get\" command was used before it was defined")
    ELSE get_columns(
             symbol_created(c, c.options.id,
                 [s EXCEPT !.symtab[c.options.id].uuid = row,
                           !.symtab[c.options.id].strong_ref = TRUE]),
             table, row, 4)

\* cmd_get once get_row has returned r
cmd_get_row(c, table, r) ==
    IF r.fatal # "" THEN ctl_fatal(txn_verified(c, r.verify), r.fatal)
    ELSE IF r.row = NULL THEN txn_verified(c, r.verify)
    ELSE IF c.options.has_id
    THEN cmd_get_symbol(txn_verified(c, r.verify), table, r.row,
                        create_symbol(c.symtab, c.options.id))
    ELSE get_columns(txn_verified(c, r.verify), table, r.row, 4)

cmd_get_table(c, t) ==
    IF t.fatal # "" THEN ctl_fatal(c, t.fatal)
    ELSE cmd_get_row(c, t.table,
                     get_row(c.idl, t.table, c.argv[3], must_exist(c)))

cmd_get(c) ==
    IF c.options.has_id /\ ~must_exist(c)
    THEN ctl_fatal(c, "--if-exists and --id may not be specified together")
    ELSE cmd_get_table(c, get_table(c.argv[2]))

(***************************************************************************)
(* The name matcher on its own: the schema is any array of at most         *)
(* MaxNames tables with distinct names, each with columns of those same    *)
(* names, and the query is any of QueryPool.                               *)
(***************************************************************************)
MaxNames == 3

foo_bar  == <<"f", "o", "o", "_", "b", "a", "r">>
foo_dash == <<"f", "o", "o", "-", "b", "a", "r">>
FooBar   == <<"F", "o", "o", "B", "a", "r">>

NamePool ==
    { foo_bar, foo_dash, FooBar,
      <<"a", "b">>, <<"a", "c">>, <<"a", "b", "c">>,
      <<"A", "b">>, <<"a", "_", "b">>, <<"a", "-", "b">>,
      <<"a", "_", "b", "c">> }

QueryPool ==
    NamePool \cup { <<"a">>, <<"f", "o", "o">>, <<"b">>, <<"A", "-", "B">>, <<>> }

NameArrays ==
    { a \in UNION { [1..n -> NamePool] : n \in 0..MaxNames } :
        \A i, j \in DOMAIN a : i # j => a[i] # a[j] }

type_string ==
    [key   |-> [type |-> "string", refTableName |-> <<>>],
     value |-> [type |-> "void", refTableName |-> <<>>],
     n_min |-> 1, n_max |-> 1]

\* an unused entry of row_ids
no_row_id == [table |-> NULL, name_column |-> NULL, uuid_column |-> NULL]

\* the schema whose tables, and whose tables' columns, are named 'names'
SchemaOfNames(names) ==
    [t \in DOMAIN names |->
        [class   |-> [name    |-> names[t],
                      columns |-> [c \in DOMAIN names |->
                                     [name |-> names[c], type |-> type_string,
                                      mutable |-> TRUE]],
                      is_root |-> TRUE],
         row_ids |-> <<no_row_id, no_row_id>>]]

\* the context before anything has run, over the rows 'rows'
ctx_init(rows) ==
    [idl       |-> rows,
     txn       |-> [open |-> FALSE, committed |-> FALSE, writes |-> <<>>,
                    inserted |-> {}, deleted |-> {}, verify |-> {},
                    real |-> << >>],
     symtab    |-> << >>,
     output    |-> <<>>,
     try_again |-> FALSE,
     argv      |-> <<>>,
     options   |-> [has_id |-> FALSE, id |-> <<>>, if_exists |-> FALSE,
                    all |-> FALSE],
     declared  |-> [tables |-> {}, columns |-> {}],
     commands  |-> <<>>,
     created   |-> <<>>,
     invalidate_cache |-> TRUE,
     hook      |-> 0,
     error     |-> "",
     status    |-> "running"]

no_rows == [u \in {} |-> 0]

MInit ==
    /\ tables \in { SchemaOfNames(a) : a \in NameArrays }
    /\ db = no_rows
    /\ ctx = ctx_init(no_rows)
    /\ h_in \in [column_name : QueryPool]
    /\ h_pc = "start"
    /\ h_out = [error |-> ""]

m_get_column ==
    /\ h_pc = "start"
    /\ tables # <<>>
    /\ h_pc' = "get_column"
    /\ h_out' = get_column(tables[1], h_in.column_name)
    /\ UNCHANGED <<tables, db, ctx, h_in>>

m_get_table ==
    /\ h_pc = "start"
    /\ h_pc' = "get_table"
    /\ h_out' = get_table(h_in.column_name)
    /\ UNCHANGED <<tables, db, ctx, h_in>>

m_score ==
    /\ h_pc = "start"
    /\ Len(tables) = 1
    /\ h_pc' = "score_partial_match"
    /\ h_out' = [score |-> score_partial_match(tables[1].class.name,
                                               h_in.column_name)]
    /\ UNCHANGED <<tables, db, ctx, h_in>>

MNext == m_get_column \/ m_get_table \/ m_score

MatchSpec == MInit /\ [][MNext]_vars

(***************************************************************************)
(* The evaluator on its own: one row of a table with a set column "s", a   *)
(* map column "m", an optional scalar "x" and a map "y" of at most one     *)
(* pair, and any condition COLUMN[:KEY] OP VALUE whose value has at most   *)
(* MaxLen elements.                                                        *)
(***************************************************************************)
MaxLen == 2

base(t) == [type |-> t, refTableName |-> <<>>]

type_set == [key |-> base("integer"), value |-> base("void"),
             n_min |-> 0, n_max |-> UINT_MAX]
type_map == [key |-> base("integer"), value |-> base("integer"),
             n_min |-> 0, n_max |-> UINT_MAX]
type_opt == [key |-> base("integer"), value |-> base("void"),
             n_min |-> 0, n_max |-> 1]
type_one == [key |-> base("integer"), value |-> base("integer"),
             n_min |-> 0, n_max |-> 1]

ESchema ==
    << [class   |-> [name    |-> <<"t">>,
                     columns |-> << [name |-> <<"s">>, type |-> type_set,
                                     mutable |-> TRUE],
                                    [name |-> <<"m">>, type |-> type_map,
                                     mutable |-> TRUE],
                                    [name |-> <<"x">>, type |-> type_opt,
                                     mutable |-> TRUE],
                                    [name |-> <<"y">>, type |-> type_one,
                                     mutable |-> TRUE] >>,
                     is_root |-> TRUE],
        row_ids |-> <<no_row_id, no_row_id>>] >>

SeqsUpTo(S, n) == UNION { [1..k -> S] : k \in 0..n }

\* the text of a value: elements joined by ",", "[]" or "{}" when empty
RECURSIVE join(_)
join(elems) ==
    IF Len(elems) = 1 THEN elems[1]
    ELSE elems[1] \o <<",">> \o join(Tail(elems))

set_text(atoms) ==
    IF atoms = <<>> THEN <<"[", "]">>
    ELSE join([i \in DOMAIN atoms |-> <<Digits[atoms[i]]>>])

map_text(pairs) ==
    IF pairs = <<>> THEN <<"{", "}">>
    ELSE join([i \in DOMAIN pairs |->
                 <<Digits[pairs[i][1]], "=", Digits[pairs[i][2]]>>])

\* the values a user can write: elements in the order written, repeats
\* included
SetValues == { [keys |-> a, values |-> <<>>] :
                 a \in SeqsUpTo(DOMAIN Digits, MaxLen) }
MapValues == { [keys |-> y[1], values |-> y[2]] :
                 y \in { z \in SeqsUpTo(1..2, MaxLen) \X SeqsUpTo(1..2, MaxLen) :
                           Len(z[1]) = Len(z[2]) } }

value_text(v, is_map) ==
    IF is_map
    THEN map_text([i \in DOMAIN v.keys |-> <<v.keys[i], v.values[i]>>])
    ELSE set_text(v.keys)

\* the datums a row can hold: sorted, with distinct keys
SetDatums ==
    { [n |-> Len(a), keys |-> a, values |-> <<>>] :
        a \in { x \in SeqsUpTo(DOMAIN Digits, 3) :
                  \A i, j \in DOMAIN x : i < j => x[i] < x[j] } }
MapDatums ==
    { [n |-> Len(y[1]), keys |-> y[1], values |-> y[2]] :
        y \in { z \in SeqsUpTo(1..2, 2) \X SeqsUpTo(1..2, 2) :
                  /\ Len(z[1]) = Len(z[2])
                  /\ \A i, j \in DOMAIN z[1] : i < j => z[1][i] < z[1][j] } }

\* a condition: column, key (0 for none), operator and value; and its text
cond_text(c) ==
    c.col \o (IF c.key = 0 THEN <<>> ELSE <<":", Digits[c.key]>>)
          \o operators[c.op + 1]
          \o value_text(c.val, c.col = <<"m">> /\ c.key = 0)

Conditions ==
    { [col |-> <<"s">>, key |-> 0, op |-> op, val |-> v] :
        op \in 0..11, v \in SetValues }
    \cup { [col |-> <<"m">>, key |-> 0, op |-> op, val |-> v] :
             op \in 0..11, v \in MapValues }
    \cup { [col |-> <<"m">>, key |-> k, op |-> op, val |-> v] :
             k \in DOMAIN Digits, op \in 0..11, v \in SetValues }
    \cup { [col |-> <<"x">>, key |-> 0, op |-> op, val |-> v] :
             op \in {RELOP_EQ, RELOP_SET_LE}, v \in SetValues }
    \cup { [col |-> c, key |-> 1, op |-> op,
            val |-> [keys |-> <<1>>, values |-> <<>>]] :
             c \in {<<"s">>, <<"x">>}, op \in 0..11 }
    \cup { [col |-> <<"y">>, key |-> k, op |-> op, val |-> v] :
             k \in 1..2, op \in {RELOP_EQ, RELOP_SET_LE}, v \in SetValues }

\* arguments that are no condition
Malformed == { <<"m", ":", "1", "=">>, <<"m", "1">>, <<"z", "=", "1">>,
               <<"=", "1">> }

no_cond == [col |-> <<>>, key |-> 0, op |-> 0,
            val |-> [keys |-> <<>>, values |-> <<>>]]

\* the rows: any set in "s" or any map in "m" with "x" and "y" empty, and
\* a row whose "x" holds 1 and whose "y" holds 1=1
ERows ==
    { [table |-> 1,
       cols  |-> <<d, ovsdb_datum_init_empty, ovsdb_datum_init_empty,
                   ovsdb_datum_init_empty>>] :
        d \in SetDatums }
    \cup { [table |-> 1,
            cols  |-> <<ovsdb_datum_init_empty, d, ovsdb_datum_init_empty,
                        ovsdb_datum_init_empty>>] :
             d \in MapDatums }
    \cup { [table |-> 1,
            cols  |-> <<ovsdb_datum_init_empty, ovsdb_datum_init_empty,
                        [n |-> 1, keys |-> <<1>>, values |-> <<>>],
                        [n |-> 1, keys |-> <<1>>, values |-> <<1>>]>>] }

EInit ==
    /\ tables = ESchema
    /\ db = no_rows
    /\ ctx = ctx_init(no_rows)
    /\ h_in \in { [row |-> r, cond |-> c, arg |-> cond_text(c)] :
                    r \in ERows, c \in Conditions }
           \cup { [row |-> r, cond |-> no_cond, arg |-> arg] :
                    r \in ERows, arg \in Malformed }
    /\ h_pc = "start"
    /\ h_out = [fatal |-> ""]

e_is_condition_satisfied ==
    /\ h_pc = "start"
    /\ h_pc' = "is_condition_satisfied"
    /\ h_out' = is_condition_satisfied(tables[1], h_in.row, h_in.arg, << >>)
    /\ UNCHANGED <<tables, db, ctx, h_in>>

ENext == e_is_condition_satisfied

EvalSpec == EInit /\ [][ENext]_vars

(***************************************************************************)
(* evaluate_relop on its own: any two datums of a set type or of a map     *)
(* type, and any operator.                                                 *)
(***************************************************************************)
RInit ==
    /\ tables = ESchema
    /\ db = no_rows
    /\ ctx = ctx_init(no_rows)
    /\ h_in \in [a : SetDatums, b : SetDatums, type : {type_set}, op : 0..11]
           \cup [a : MapDatums, b : MapDatums, type : {type_map}, op : 0..11]
    /\ h_pc = "start"
    /\ h_out = [retval |-> FALSE]

r_evaluate_relop ==
    /\ h_pc = "start"
    /\ h_pc' = "evaluate_relop"
    /\ h_out' = [retval |-> evaluate_relop(h_in.a, h_in.b, h_in.type, h_in.op)]
    /\ UNCHANGED <<tables, db, ctx, h_in>>

RNext == r_evaluate_relop

RelSpec == RInit /\ [][RNext]_vars

(***************************************************************************)
(* The row resolver on its own: a table "T" of named rows, with any two    *)
(* row_ids, and a table "R" of at most MaxReferrers rows that name a row   *)
(* of "T" in a column "ref".                                               *)
(***************************************************************************)
MaxReferrers == 2

type_name == [key |-> base("string"), value |-> base("void"),
              n_min |-> 0, n_max |-> UINT_MAX]
type_ref  == [key |-> [type |-> "uuid", refTableName |-> <<"T">>],
              value |-> base("void"), n_min |-> 0, n_max |-> 1]

\* the row_ids a table "T" may declare: itself by name, itself when it has
\* one row, "R" by name and "R" when it has one row, and none
RowIds ==
    { no_row_id,
      [table |-> 1, name_column |-> 1, uuid_column |-> NULL],
      [table |-> 1, name_column |-> NULL, uuid_column |-> NULL],
      [table |-> 2, name_column |-> 1, uuid_column |-> 2],
      [table |-> 2, name_column |-> NULL, uuid_column |-> 2] }

WSchema(row_ids) ==
    << [class   |-> [name    |-> <<"T">>,
                     columns |-> << [name |-> <<"n", "a", "m", "e">>,
                                     type |-> type_name, mutable |-> TRUE] >>,
                     is_root |-> TRUE],
        row_ids |-> row_ids],
       [class   |-> [name    |-> <<"R">>,
                     columns |-> << [name |-> <<"n", "a", "m", "e">>,
                                     type |-> type_name, mutable |-> TRUE],
                                    [name |-> <<"r", "e", "f">>,
                                     type |-> type_ref, mutable |-> TRUE] >>,
                     is_root |-> TRUE],
        row_ids |-> <<no_row_id, no_row_id>>] >>

strings(keys) == [n |-> Len(keys), keys |-> keys, values |-> <<>>]

\* rows #1 and #2 of "T", each there or not, named "a" or "b"
TRows ==
    UNION { [S -> { [table |-> 1, cols |-> <<strings(<< <<"a">> >>)>>],
                    [table |-> 1, cols |-> <<strings(<< <<"b">> >>)>>] }] :
              S \in SUBSET {1, 2} }

\* rows of "R" from #3 on, each there or not, named "a" or "a" and "b",
\* with a ref that is empty, #1 or #2
RRows ==
    UNION { [S -> { [table |-> 2, cols |-> <<strings(k), strings(r)>>] :
                      k \in { << <<"a">> >>, << <<"a">>, <<"b">> >> },
                      r \in { <<>>, <<1>>, <<2>> } }] :
              S \in SUBSET (3..(2 + MaxReferrers)) }

WInit ==
    /\ tables \in { WSchema(<<a, b>>) :
                      a \in RowIds, b \in { x \in RowIds : x.name_column # NULL } \cup {no_row_id} }
    /\ db \in { t @@ r : t \in TRows, r \in RRows }
    /\ ctx = ctx_init(db)
    /\ h_in \in [record_id : { <<"a">>, <<".">>, <<"#", "1">> },
                 must_exist : BOOLEAN]
    /\ h_pc = "start"
    /\ h_out = row_none

w_get_row ==
    /\ h_pc = "start"
    /\ h_pc' = "get_row"
    /\ h_out' = get_row(ctx.idl, 1, h_in.record_id, h_in.must_exist)
    /\ UNCHANGED <<tables, db, ctx, h_in>>

w_get_row_by_id ==
    /\ h_pc = "start"
    /\ h_pc' = "get_row_by_id"
    /\ h_out' = get_row_by_id(ctx.idl, 1, tables[1].row_ids[1], h_in.record_id)
    /\ UNCHANGED <<tables, db, ctx, h_in>>

WNext == w_get_row \/ w_get_row_by_id

RowSpec == WInit /\ [][WNext]_vars

(***************************************************************************)
(* The interpreter: a stream of at most MaxCmds commands of CommandPool    *)
(* run in one transaction over a database of a table "Bridge" (a root      *)
(* table, with a name and a set of references to ports) and a table        *)
(* "Port" (with a read-only name, an optional integer "tag" and a map      *)
(* "ids" of at most one pair).  The database has a bridge "b" and its port *)
(* "p", whose "ids" is empty or holds 1=1.  The stream ends when the        *)
(* transaction is committed, when a command has exited the process or when *)
(* a command has set try_again, which ends the attempt.                    *)
(***************************************************************************)
MaxCmds == 2

type_ports == [key |-> [type |-> "uuid", refTableName |-> <<"P", "o", "r", "t">>],
               value |-> base("void"), n_min |-> 0, n_max |-> UINT_MAX]
type_ids   == [key |-> base("integer"), value |-> base("integer"),
               n_min |-> 0, n_max |-> 1]

Schema ==
    << [class   |-> [name    |-> <<"B", "r", "i", "d", "g", "e">>,
                     columns |-> << [name |-> <<"n", "a", "m", "e">>,
                                     type |-> type_string, mutable |-> TRUE],
                                    [name |-> <<"p", "o", "r", "t", "s">>,
                                     type |-> type_ports, mutable |-> TRUE] >>,
                     is_root |-> TRUE],
        row_ids |-> << [table |-> 1, name_column |-> 1, uuid_column |-> NULL],
                       no_row_id >>],
       [class   |-> [name    |-> <<"P", "o", "r", "t">>,
                     columns |-> << [name |-> <<"n", "a", "m", "e">>,
                                     type |-> type_string, mutable |-> FALSE],
                                    [name |-> <<"t", "a", "g">>,
                                     type |-> type_opt, mutable |-> TRUE],
                                    [name |-> <<"i", "d", "s">>,
                                     type |-> type_ids, mutable |-> TRUE] >>,
                     is_root |-> FALSE],
        row_ids |-> << [table |-> 2, name_column |-> 1, uuid_column |-> NULL],
                       no_row_id >>] >>

\* the databases the stream may start from
Databases ==
    { (1 :> [table |-> 1,
             cols  |-> << strings(<< <<"b">> >>),
                          [n |-> 1, keys |-> <<2>>, values |-> <<>>] >>])
      @@
      (2 :> [table |-> 2,
             cols  |-> << strings(<< <<"p">> >>), ovsdb_datum_init_empty, ids >>])
      : ids \in { ovsdb_datum_init_empty,
                  [n |-> 1, keys |-> <<1>>, values |-> <<1>>] } }

\* a ctl_command: its options, its arguments and its output
command(has_id, id, if_exists, argv) ==
    [options |-> [has_id |-> has_id, id |-> id, if_exists |-> if_exists,
                  all |-> FALSE],
     argv    |-> argv,
     output  |-> <<>>]

no_command == command(FALSE, <<>>, FALSE, <<>>)

CommandPool ==
    {
    \* set Port p tag=1
      command(FALSE, <<>>, FALSE,
              <<<<"s", "e", "t">>,
                <<"P", "o", "r", "t">>,
                <<"p">>,
                <<"t", "a", "g", "=", "1">>>>),
    \* set Port p ids:2=1
      command(FALSE, <<>>, FALSE,
              <<<<"s", "e", "t">>,
                <<"P", "o", "r", "t">>,
                <<"p">>,
                <<"i", "d", "s", ":", "2", "=", "1">>>>),
    \* set Port p ids:1=2
      command(FALSE, <<>>, FALSE,
              <<<<"s", "e", "t">>,
                <<"P", "o", "r", "t">>,
                <<"p">>,
                <<"i", "d", "s", ":", "1", "=", "2">>>>),
    \* set Port p tag=1,2
      command(FALSE, <<>>, FALSE,
              <<<<"s", "e", "t">>,
                <<"P", "o", "r", "t">>,
                <<"p">>,
                <<"t", "a", "g", "=", "1", ",", "2">>>>),
    \* set Port p tag=2 name=q
      command(FALSE, <<>>, FALSE,
              <<<<"s", "e", "t">>,
                <<"P", "o", "r", "t">>,
                <<"p">>,
                <<"t", "a", "g", "=", "2">>,
                <<"n", "a", "m", "e", "=", "q">>>>),
    \* set Bridge b ports=@x
      command(FALSE, <<>>, FALSE,
              <<<<"s", "e", "t">>,
                <<"B", "r", "i", "d", "g", "e">>,
                <<"b">>,
                <<"p", "o", "r", "t", "s", "=", "@", "x">>>>),
    \* --if-exists set Port zz tag=1
      command(FALSE, <<>>, TRUE,
              <<<<"s", "e", "t">>,
                <<"P", "o", "r", "t">>,
                <<"z", "z">>,
                <<"t", "a", "g", "=", "1">>>>),
    \* --if-exists set Port zz tag=x
      command(FALSE, <<>>, TRUE,
              <<<<"s", "e", "t">>,
                <<"P", "o", "r", "t">>,
                <<"z", "z">>,
                <<"t", "a", "g", "=", "x">>>>),
    \* --if-exists set Port zz bogus=1
      command(FALSE, <<>>, TRUE,
              <<<<"s", "e", "t">>,
                <<"P", "o", "r", "t">>,
                <<"z", "z">>,
                <<"b", "o", "g", "u", "s", "=", "1">>>>),
    \* --if-exists add Port zz tag x
      command(FALSE, <<>>, TRUE,
              <<<<"a", "d", "d">>,
                <<"P", "o", "r", "t">>,
                <<"z", "z">>,
                <<"t", "a", "g">>,
                <<"x">>>>),
    \* --if-exists remove Port zz tag x
      command(FALSE, <<>>, TRUE,
              <<<<"r", "e", "m", "o", "v", "e">>,
                <<"P", "o", "r", "t">>,
                <<"z", "z">>,
                <<"t", "a", "g">>,
                <<"x">>>>),
    \* --if-exists clear Port zz tag
      command(FALSE, <<>>, TRUE,
              <<<<"c", "l", "e", "a", "r">>,
                <<"P", "o", "r", "t">>,
                <<"z", "z">>,
                <<"t", "a", "g">>>>),
    \* --if-exists get Port zz tag=1
      command(FALSE, <<>>, TRUE,
              <<<<"g", "e", "t">>,
                <<"P", "o", "r", "t">>,
                <<"z", "z">>,
                <<"t", "a", "g", "=", "1">>>>),
    \* add Port p tag 1
      command(FALSE, <<>>, FALSE,
              <<<<"a", "d", "d">>,
                <<"P", "o", "r", "t">>,
                <<"p">>,
                <<"t", "a", "g">>,
                <<"1">>>>),
    \* add Port p ids 2=1
      command(FALSE, <<>>, FALSE,
              <<<<"a", "d", "d">>,
                <<"P", "o", "r", "t">>,
                <<"p">>,
                <<"i", "d", "s">>,
                <<"2", "=", "1">>>>),
    \* add Port p ids 1=2
      command(FALSE, <<>>, FALSE,
              <<<<"a", "d", "d">>,
                <<"P", "o", "r", "t">>,
                <<"p">>,
                <<"i", "d", "s">>,
                <<"1", "=", "2">>>>),
    \* remove Port p ids 1
      command(FALSE, <<>>, FALSE,
              <<<<"r", "e", "m", "o", "v", "e">>,
                <<"P", "o", "r", "t">>,
                <<"p">>,
                <<"i", "d", "s">>,
                <<"1">>>>),
    \* remove Port p ids 1=1
      command(FALSE, <<>>, FALSE,
              <<<<"r", "e", "m", "o", "v", "e">>,
                <<"P", "o", "r", "t">>,
                <<"p">>,
                <<"i", "d", "s">>,
                <<"1", "=", "1">>>>),
    \* remove Port p tag 1
      command(FALSE, <<>>, FALSE,
              <<<<"r", "e", "m", "o", "v", "e">>,
                <<"P", "o", "r", "t">>,
                <<"p">>,
                <<"t", "a", "g">>,
                <<"1">>>>),
    \* remove Bridge b name b
      command(FALSE, <<>>, FALSE,
              <<<<"r", "e", "m", "o", "v", "e">>,
                <<"B", "r", "i", "d", "g", "e">>,
                <<"b">>,
                <<"n", "a", "m", "e">>,
                <<"b">>>>),
    \* clear Port p tag
      command(FALSE, <<>>, FALSE,
              <<<<"c", "l", "e", "a", "r">>,
                <<"P", "o", "r", "t">>,
                <<"p">>,
                <<"t", "a", "g">>>>),
    \* clear Bridge b ports name
      command(FALSE, <<>>, FALSE,
              <<<<"c", "l", "e", "a", "r">>,
                <<"B", "r", "i", "d", "g", "e">>,
                <<"b">>,
                <<"p", "o", "r", "t", "s">>,
                <<"n", "a", "m", "e">>>>),
    \* set Port p name=q,r
      command(FALSE, <<>>, FALSE,
              <<<<"s", "e", "t">>,
                <<"P", "o", "r", "t">>,
                <<"p">>,
                <<"n", "a", "m", "e", "=", "q", ",", "r">>>>),
    \* add Port p name q
      command(FALSE, <<>>, FALSE,
              <<<<"a", "d", "d">>,
                <<"P", "o", "r", "t">>,
                <<"p">>,
                <<"n", "a", "m", "e">>,
                <<"q">>>>),
    \* remove Port p name p
      command(FALSE, <<>>, FALSE,
              <<<<"r", "e", "m", "o", "v", "e">>,
                <<"P", "o", "r", "t">>,
                <<"p">>,
                <<"n", "a", "m", "e">>,
                <<"p">>>>),
    \* remove Port p ids 1=2
      command(FALSE, <<>>, FALSE,
              <<<<"r", "e", "m", "o", "v", "e">>,
                <<"P", "o", "r", "t">>,
                <<"p">>,
                <<"i", "d", "s">>,
                <<"1", "=", "2">>>>),
    \* remove Port p ids 1 2
      command(FALSE, <<>>, FALSE,
              <<<<"r", "e", "m", "o", "v", "e">>,
                <<"P", "o", "r", "t">>,
                <<"p">>,
                <<"i", "d", "s">>,
                <<"1">>,
                <<"2">>>>),
    \* remove Port p tag x
      command(FALSE, <<>>, FALSE,
              <<<<"r", "e", "m", "o", "v", "e">>,
                <<"P", "o", "r", "t">>,
                <<"p">>,
                <<"t", "a", "g">>,
                <<"x">>>>),
    \* add Bridge b ports #1
      command(FALSE, <<>>, FALSE,
              <<<<"a", "d", "d">>,
                <<"B", "r", "i", "d", "g", "e">>,
                <<"b">>,
                <<"p", "o", "r", "t", "s">>,
                <<"#", "1">>>>),
    \* remove Bridge b ports #1
      command(FALSE, <<>>, FALSE,
              <<<<"r", "e", "m", "o", "v", "e">>,
                <<"B", "r", "i", "d", "g", "e">>,
                <<"b">>,
                <<"p", "o", "r", "t", "s">>,
                <<"#", "1">>>>),
    \* wait-until Port p tag=1
      command(FALSE, <<>>, FALSE,
              <<<<"w", "a", "i", "t", "-", "u", "n", "t", "i", "l">>,
                <<"P", "o", "r", "t">>,
                <<"p">>,
                <<"t", "a", "g", "=", "1">>>>),
    \* wait-until Port zz tag=1
      command(FALSE, <<>>, FALSE,
              <<<<"w", "a", "i", "t", "-", "u", "n", "t", "i", "l">>,
                <<"P", "o", "r", "t">>,
                <<"z", "z">>,
                <<"t", "a", "g", "=", "1">>>>),
    \* wait-until Port p tag=1 ids:1=1
      command(FALSE, <<>>, FALSE,
              <<<<"w", "a", "i", "t", "-", "u", "n", "t", "i", "l">>,
                <<"P", "o", "r", "t">>,
                <<"p">>,
                <<"t", "a", "g", "=", "1">>,
                <<"i", "d", "s", ":", "1", "=", "1">>>>),
    \* wait-until Port p tag=1 tag=x
      command(FALSE, <<>>, FALSE,
              <<<<"w", "a", "i", "t", "-", "u", "n", "t", "i", "l">>,
                <<"P", "o", "r", "t">>,
                <<"p">>,
                <<"t", "a", "g", "=", "1">>,
                <<"t", "a", "g", "=", "x">>>>),
    \* wait-until Port p
      command(FALSE, <<>>, FALSE,
              <<<<"w", "a", "i", "t", "-", "u", "n", "t", "i", "l">>,
                <<"P", "o", "r", "t">>,
                <<"p">>>>),
    \* destroy Port p
      command(FALSE, <<>>, FALSE,
              <<<<"d", "e", "s", "t", "r", "o", "y">>,
                <<"P", "o", "r", "t">>,
                <<"p">>>>),
    \* destroy Port zz
      command(FALSE, <<>>, FALSE,
              <<<<"d", "e", "s", "t", "r", "o", "y">>,
                <<"P", "o", "r", "t">>,
                <<"z", "z">>>>),
    \* --if-exists destroy Port zz p
      command(FALSE, <<>>, TRUE,
              <<<<"d", "e", "s", "t", "r", "o", "y">>,
                <<"P", "o", "r", "t">>,
                <<"z", "z">>,
                <<"p">>>>),
    \* --if-exists destroy Port zz
      command(FALSE, <<>>, TRUE,
              <<<<"d", "e", "s", "t", "r", "o", "y">>,
                <<"P", "o", "r", "t">>,
                <<"z", "z">>>>),
    \* --all destroy Port
      [command(FALSE, <<>>, FALSE,
              <<<<"d", "e", "s", "t", "r", "o", "y">>,
                <<"P", "o", "r", "t">>>>)
         EXCEPT !.options.all = TRUE],
    \* --all destroy Port p
      [command(FALSE, <<>>, FALSE,
              <<<<"d", "e", "s", "t", "r", "o", "y">>,
                <<"P", "o", "r", "t">>,
                <<"p">>>>)
         EXCEPT !.options.all = TRUE],
    \* --all --if-exists destroy Bridge
      [command(FALSE, <<>>, TRUE,
              <<<<"d", "e", "s", "t", "r", "o", "y">>,
                <<"B", "r", "i", "d", "g", "e">>>>)
         EXCEPT !.options.all = TRUE],
    \* destroy Bridge b
      command(FALSE, <<>>, FALSE,
              <<<<"d", "e", "s", "t", "r", "o", "y">>,
                <<"B", "r", "i", "d", "g", "e">>,
                <<"b">>>>),
    \* clear Port p name tag
      command(FALSE, <<>>, FALSE,
              <<<<"c", "l", "e", "a", "r">>,
                <<"P", "o", "r", "t">>,
                <<"p">>,
                <<"n", "a", "m", "e">>,
                <<"t", "a", "g">>>>),
    \* clear Port p ids name
      command(FALSE, <<>>, FALSE,
              <<<<"c", "l", "e", "a", "r">>,
                <<"P", "o", "r", "t">>,
                <<"p">>,
                <<"i", "d", "s">>,
                <<"n", "a", "m", "e">>>>),
    \* create Port name=q
      command(FALSE, <<>>, FALSE,
              <<<<"c", "r", "e", "a", "t", "e">>,
                <<"P", "o", "r", "t">>,
                <<"n", "a", "m", "e", "=", "q">>>>),
    \* --id=@x create Port name=q ids:1=1
      command(TRUE, <<"@", "x">>, FALSE,
              <<<<"c", "r", "e", "a", "t", "e">>,
                <<"P", "o", "r", "t">>,
                <<"n", "a", "m", "e", "=", "q">>,
                <<"i", "d", "s", ":", "1", "=", "1">>>>),
    \* --id=x create Port name=q
      command(TRUE, <<"x">>, FALSE,
              <<<<"c", "r", "e", "a", "t", "e">>,
                <<"P", "o", "r", "t">>,
                <<"n", "a", "m", "e", "=", "q">>>>),
    \* --id=@x create Bridge name=c
      command(TRUE, <<"@", "x">>, FALSE,
              <<<<"c", "r", "e", "a", "t", "e">>,
                <<"B", "r", "i", "d", "g", "e">>,
                <<"n", "a", "m", "e", "=", "c">>>>),
    \* create Port name=q tag=1,2
      command(FALSE, <<>>, FALSE,
              <<<<"c", "r", "e", "a", "t", "e">>,
                <<"P", "o", "r", "t">>,
                <<"n", "a", "m", "e", "=", "q">>,
                <<"t", "a", "g", "=", "1", ",", "2">>>>),
    \* get Port p tag _uuid
      command(FALSE, <<>>, FALSE,
              <<<<"g", "e", "t">>,
                <<"P", "o", "r", "t">>,
                <<"p">>,
                <<"t", "a", "g">>,
                <<"_", "u", "u", "i", "d">>>>),
    \* get Port p ids:1
      command(FALSE, <<>>, FALSE,
              <<<<"g", "e", "t">>,
                <<"P", "o", "r", "t">>,
                <<"p">>,
                <<"i", "d", "s", ":", "1">>>>),
    \* --id=@x get Port p
      command(TRUE, <<"@", "x">>, FALSE,
              <<<<"g", "e", "t">>,
                <<"P", "o", "r", "t">>,
                <<"p">>>>),
    \* --id=@x get Port zz
      command(TRUE, <<"@", "x">>, FALSE,
              <<<<"g", "e", "t">>,
                <<"P", "o", "r", "t">>,
                <<"z", "z">>>>),
    \* --id=@x --if-exists get Nope p
      command(TRUE, <<"@", "x">>, TRUE,
              <<<<"g", "e", "t">>,
                <<"N", "o", "p", "e">>,
                <<"p">>>>)
    }

Commands(name) == { c \in CommandPool : c.argv[1] = name }

\* a ctl_context_init_command that leaves try_again as it was
ctl_context_init_command_no_reset(c, cmd) ==
    [c EXCEPT !.argv = cmd.argv, !.options = cmd.options,
              !.output = cmd.output]

ctl_context_init_command(c, cmd) ==
    [c EXCEPT !.argv = cmd.argv, !.options = cmd.options,
              !.output = cmd.output, !.try_again = FALSE]

\* ctl_context_done_command, which a process that has exited does not reach
ctl_context_done_command(c, cmd) ==
    IF c.status # "running" THEN c
    ELSE [c EXCEPT !.commands = Append(@, [cmd EXCEPT !.output = c.output]),
                   !.output = <<>>]

Init ==
    /\ tables = Schema
    /\ db \in Databases
    /\ ctx = [ctx_init(db) EXCEPT !.txn.open = TRUE]
    /\ h_pc = "run"
    /\ h_in = no_command
    /\ h_out = ctx

\* ovsdb_idl_add_table(idl, class) and ovsdb_idl_add_column(idl, column),
\* 'column' a column of 'table'
ovsdb_idl_add_table(c, table) ==
    [c EXCEPT !.declared.tables = @ \cup {table}]

ovsdb_idl_add_column(c, table, column) ==
    [c EXCEPT !.declared.columns = @ \cup {<<table, column>>}]

\* the body of the loop of pre_get_table for the descriptor id
pre_row_id(c, id) ==
    [c EXCEPT !.declared.tables =
                  @ \cup (IF id.table # NULL THEN {id.table} ELSE {}),
              !.declared.columns =
                  @ \cup (IF id.name_column # NULL
                          THEN {<<id.table, id.name_column>>} ELSE {})
                    \cup (IF id.uuid_column # NULL
                          THEN {<<id.table, id.uuid_column>>} ELSE {})]

RECURSIVE pre_row_ids(_, _, _)
pre_row_ids(c, row_ids, i) ==
    IF i > Len(row_ids) THEN c
    ELSE pre_row_ids(pre_row_id(c, row_ids[i]), row_ids, i + 1)

\* pre_get_table(ctx, table_name) once get_table has returned t
pre_get_table(c, t) ==
    IF t.fatal # "" THEN ctl_fatal(c, t.fatal)
    ELSE pre_row_ids(ovsdb_idl_add_table(c, t.table),
                     tables[t.table].row_ids, 1)

\* pre_get_column(ctx, table, column_name, &column) once get_column has
\* returned r
pre_get_column(c, table, r) ==
    IF r.error # "" THEN ctl_fatal(c, r.error)
    ELSE ovsdb_idl_add_column(c, table, r.column)

\* pre_parse_column_key_value(ctx, arg, table) once ovsdb_token_parse has
\* returned tok
pre_parse_column_key_value(c, table, tok) ==
    IF tok.error # "" THEN ctl_fatal(c, tok.error)
    ELSE IF tok.token = <<>> THEN ctl_fatal(c, "missing column name")
    ELSE pre_get_column(c, table, get_column(tables[table], tok.token))

\* the loops of the pre functions over the arguments from argv[i]: of
\* pre_cmd_get, of pre_cmd_set and pre_cmd_wait_until, and of pre_cmd_clear
RECURSIVE pre_get_loop(_, _, _)
pre_get_loop(c, table, i) ==
    IF c.error # "" \/ i > Len(c.argv) THEN c
    ELSE IF \/ strcaseeq(c.argv[i], <<"_", "u", "u", "i", "d">>)
            \/ strcaseeq(c.argv[i], <<"-", "u", "u", "i", "d">>)
    THEN pre_get_loop(c, table, i + 1)
    ELSE pre_get_loop(
             pre_parse_column_key_value(c, table,
                                        ovsdb_token_parse(c.argv[i], 1)),
             table, i + 1)

RECURSIVE pre_set_loop(_, _, _)
pre_set_loop(c, table, i) ==
    IF c.error # "" \/ i > Len(c.argv) THEN c
    ELSE pre_set_loop(
             pre_parse_column_key_value(c, table,
                                        ovsdb_token_parse(c.argv[i], 1)),
             table, i + 1)

RECURSIVE pre_clear_loop(_, _, _)
pre_clear_loop(c, table, i) ==
    IF c.error # "" \/ i > Len(c.argv) THEN c
    ELSE pre_clear_loop(
             pre_get_column(c, table, get_column(tables[table], c.argv[i])),
             table, i + 1)

\* a pre function from the return of pre_get_table on: p is the context
\* it left and t the table
pre_cmd_get_table(p, t) ==
    IF p.error # "" THEN p ELSE pre_get_loop(p, t.table, 4)

pre_cmd_set_table(p, t) ==
    IF p.error # "" THEN p ELSE pre_set_loop(p, t.table, 4)

pre_cmd_add_table(p, t) ==
    IF p.error # "" THEN p
    ELSE pre_get_column(p, t.table, get_column(tables[t.table], p.argv[4]))

pre_cmd_clear_table(p, t) ==
    IF p.error # "" THEN p ELSE pre_clear_loop(p, t.table, 4)

pre_cmd_get(c) ==
    pre_cmd_get_table(pre_get_table(c, get_table(c.argv[2])),
                      get_table(c.argv[2]))

pre_cmd_set(c) ==
    pre_cmd_set_table(pre_get_table(c, get_table(c.argv[2])),
                      get_table(c.argv[2]))

pre_cmd_add(c) ==
    pre_cmd_add_table(pre_get_table(c, get_table(c.argv[2])),
                      get_table(c.argv[2]))

pre_cmd_remove(c) ==
    pre_cmd_add_table(pre_get_table(c, get_table(c.argv[2])),
                      get_table(c.argv[2]))

pre_cmd_clear(c) ==
    pre_cmd_clear_table(pre_get_table(c, get_table(c.argv[2])),
                        get_table(c.argv[2]))

\* pre_create: get_table, and a warning
pre_create(c) ==
    IF get_table(c.argv[2]).fatal # ""
    THEN ctl_fatal(c, get_table(c.argv[2]).fatal)
    ELSE c

pre_cmd_destroy(c) == pre_get_table(c, get_table(c.argv[2]))

pre_cmd_wait_until(c) ==
    pre_cmd_set_table(pre_get_table(c, get_table(c.argv[2])),
                      get_table(c.argv[2]))

\* the pre function of the command in c (c->syntax->prerequisites)
syntax_pre(c) ==
    CASE c.argv[1] = <<"s", "e", "t">>                -> pre_cmd_set(c)
      [] c.argv[1] = <<"a", "d", "d">>                -> pre_cmd_add(c)
      [] c.argv[1] = <<"r", "e", "m", "o", "v", "e">> -> pre_cmd_remove(c)
      [] c.argv[1] = <<"c", "l", "e", "a", "r">>      -> pre_cmd_clear(c)
      [] c.argv[1] = <<"c", "r", "e", "a", "t", "e">> -> pre_create(c)
      [] c.argv[1] = <<"g", "e", "t">>                -> pre_cmd_get(c)
      [] c.argv[1] = <<"d", "e", "s", "t", "r", "o", "y">>
                                                      -> pre_cmd_destroy(c)
      [] OTHER                                        -> pre_cmd_wait_until(c)

\* one command of the stream: the pre pass of cmd leaves the context p, and
\* when it has not ended the process the run pass of cmd from p leaves the
\* context c; h_in is the command last run and h_out the context it was run
\* from.  (The driver runs the pre pass of every command before it opens
\* the transaction: a command whose pre pass ends fatally is never run.)
run(cmd, p, c) ==
    /\ h_pc = "run"
    /\ ctx.status = "running"
    /\ ~ctx.try_again
    /\ Len(ctx.commands) < MaxCmds
    /\ ctx' = IF p.status # "running" THEN p
              ELSE ctl_context_done_command(c, cmd)
    /\ h_in' = cmd
    /\ h_out' = ctx
    /\ UNCHANGED <<tables, db, h_pc>>

run_set ==
    \E cmd \in Commands(<<"s", "e", "t">>) :
        run(cmd, pre_cmd_set(ctl_context_init_command(ctx, cmd)),
            cmd_set(pre_cmd_set(ctl_context_init_command(ctx, cmd))))

run_add ==
    \E cmd \in Commands(<<"a", "d", "d">>) :
        run(cmd, pre_cmd_add(ctl_context_init_command(ctx, cmd)),
            cmd_add(pre_cmd_add(ctl_context_init_command(ctx, cmd))))

run_remove ==
    \E cmd \in Commands(<<"r", "e", "m", "o", "v", "e">>) :
        run(cmd, pre_cmd_remove(ctl_context_init_command(ctx, cmd)),
            cmd_remove(pre_cmd_remove(ctl_context_init_command(ctx, cmd))))

run_clear ==
    \E cmd \in Commands(<<"c", "l", "e", "a", "r">>) :
        run(cmd, pre_cmd_clear(ctl_context_init_command(ctx, cmd)),
            cmd_clear(pre_cmd_clear(ctl_context_init_command(ctx, cmd))))

run_create ==
    \E cmd \in Commands(<<"c", "r", "e", "a", "t", "e">>) :
        run(cmd, pre_create(ctl_context_init_command(ctx, cmd)),
            cmd_create(pre_create(ctl_context_init_command(ctx, cmd))))

run_get ==
    \E cmd \in Commands(<<"g", "e", "t">>) :
        run(cmd, pre_cmd_get(ctl_context_init_command(ctx, cmd)),
            cmd_get(pre_cmd_get(ctl_context_init_command(ctx, cmd))))

run_destroy ==
    \E cmd \in Commands(<<"d", "e", "s", "t", "r", "o", "y">>) :
        run(cmd, pre_cmd_destroy(ctl_context_init_command(ctx, cmd)),
            cmd_destroy(pre_cmd_destroy(ctl_context_init_command(ctx, cmd))))

run_wait_until ==
    \E cmd \in Commands(<<"w", "a", "i", "t", "-", "u", "n", "t", "i", "l">>) :
        run(cmd, pre_cmd_wait_until(ctl_context_init_command(ctx, cmd)),
            cmd_wait_until(pre_cmd_wait_until(ctl_context_init_command(ctx, cmd))))

\* the uuid the database gives the row inserted as 'uuid'
RealUuid(uuid) == uuid + 20

\* the post pass over the commands from the i'th: post_create for each
\* create, its output swapped in and out of the context
post_command(c, i, posted) ==
    IF posted.status # "running" THEN posted
    ELSE [c EXCEPT !.commands[i].output = posted.output]

RECURSIVE post_pass(_, _)
post_pass(c, i) ==
    IF c.status # "running" \/ i > Len(c.commands) THEN c
    ELSE IF c.commands[i].argv[1] = <<"c", "r", "e", "a", "t", "e">>
    THEN post_pass(
             post_command(c, i,
                 post_create(ctl_context_init_command(c, c.commands[i]))),
             i + 1)
    ELSE post_pass(c, i + 1)

\* the end of the stream: ctl_context_done, the commit of the transaction,
\* which makes the rows as the commands left them the database and gives
\* the rows inserted their permanent uuids (or reports none for some),
\* the post pass and exit
commit ==
    /\ h_pc = "run"
    /\ ctx.status = "running"
    /\ ~ctx.try_again
    /\ Len(ctx.commands) >= 1
    /\ db' = ctx.idl
    /\ \E known \in SUBSET ctx.txn.inserted :
           ctx' = ctl_exit(
                      post_pass([invalidate_cache(ctx)
                                   EXCEPT !.txn.open = FALSE,
                                          !.txn.committed = TRUE,
                                          !.txn.real =
                                              [u \in ctx.txn.inserted |->
                                                 IF u \in known
                                                 THEN RealUuid(u) ELSE NULL]],
                                1),
                      "EXIT_SUCCESS")
    /\ h_pc' = "done"
    /\ UNCHANGED <<tables, h_in, h_out>>

Next ==
    \/ run_set
    \/ run_add
    \/ run_remove
    \/ run_clear
    \/ run_create
    \/ run_get
    \/ run_destroy
    \/ run_wait_until
    \/ commit

Spec == Init /\ [][Next]_vars

(***************************************************************************)
(* Properties of the name matcher (MatchSpec).                             *)
(***************************************************************************)
\* the names a call has scanned, in their order, and their scores
m_names ==
    IF h_pc = "get_column"
    THEN [i \in DOMAIN tables[1].class.columns |->
            tables[1].class.columns[i].name]
    ELSE [i \in DOMAIN tables |-> tables[i].class.name]

m_scores ==
    [i \in DOMAIN m_names |-> score_partial_match(m_names[i], h_in.column_name)]

m_result == IF h_pc = "get_column" THEN h_out.column ELSE h_out.table
m_error  == IF h_pc = "get_column" THEN h_out.error ELSE h_out.fatal

m_ambiguous ==
    IF h_pc = "get_column"
    THEN "contains more than one column whose name matches"
    ELSE "multiple table names match"

m_no_match ==
    IF h_pc = "get_column"
    THEN "does not contain a column whose name matches"
    ELSE "unknown table"

\* C5: get_column and get_table return a name only if its score is non-zero
\* and strictly greater than every other name's; when two or more names
\* share the greatest non-zero score they report ambiguity and return no
\* name; when every score is zero they report that nothing matches.
C5_StrictMaximum ==
    h_pc \in {"get_column", "get_table"} =>
        LET top == { i \in DOMAIN m_names :
                       /\ m_scores[i] # 0
                       /\ \A j \in DOMAIN m_names : m_scores[j] <= m_scores[i] }
        IN  /\ m_result # NULL =>
                /\ m_error = ""
                /\ m_scores[m_result] # 0
                /\ \A j \in DOMAIN m_names \ {m_result} :
                      m_scores[j] < m_scores[m_result]
            /\ Cardinality(top) >= 2 =>
                m_result = NULL /\ m_error = m_ambiguous
            /\ (\A i \in DOMAIN m_names : m_scores[i] = 0) =>
                m_result = NULL /\ m_error = m_no_match
            /\ Cardinality(top) = 1 => m_result \in top

\* three names, the last two tied on the greatest score and the first
\* lower but not zero: ambiguity
C5_Witness ==
    /\ h_pc = "get_column"
    /\ Len(tables) = 3
    /\ m_scores[2] = m_scores[3]
    /\ m_scores[1] # 0
    /\ m_scores[1] < m_scores[2]
    /\ h_out.column = NULL
    /\ h_out.error = m_ambiguous

Elements(d, type) ==
    IF ovsdb_type_is_map(type)
    THEN { <<d.keys[i], d.values[i]>> : i \in 1..d.n }
    ELSE { d.keys[i] : i \in 1..d.n }

\* C9: on a row datum a and a user datum b, {<} is "a is a strict subset of
\* b", {>} "b is a strict subset of a", {<=} "a is a subset of b", {>=} "b
\* is a subset of a", {=} "the same elements" and {!=} its negation; so {<}
\* is {<=} and {!=} together, and {>} is {>=} and {!=} together.
C9_SetOperators ==
    h_pc = "evaluate_relop" =>
        LET A == Elements(h_in.a, h_in.type)
            B == Elements(h_in.b, h_in.type)
            is(op) == evaluate_relop(h_in.a, h_in.b, h_in.type, op)
        IN  /\ h_in.op = RELOP_SET_LT => h_out.retval = (A \subseteq B /\ A # B)
            /\ h_in.op = RELOP_SET_GT => h_out.retval = (B \subseteq A /\ A # B)
            /\ h_in.op = RELOP_SET_LE => h_out.retval = (A \subseteq B)
            /\ h_in.op = RELOP_SET_GE => h_out.retval = (B \subseteq A)
            /\ h_in.op = RELOP_SET_EQ => h_out.retval = (A = B)
            /\ h_in.op = RELOP_SET_NE => h_out.retval = (A # B)
            /\ h_in.op = RELOP_SET_LT =>
                  h_out.retval = (is(RELOP_SET_LE) /\ is(RELOP_SET_NE))
            /\ h_in.op = RELOP_SET_GT =>
                  h_out.retval = (is(RELOP_SET_GE) /\ is(RELOP_SET_NE))

\* {<} on two maps with the same pairs: false, though each includes the other
C9_Witness ==
    /\ h_pc = "evaluate_relop"
    /\ h_in.op = RELOP_SET_LT
    /\ ovsdb_type_is_map(h_in.type)
    /\ h_in.a.n = 2
    /\ h_in.a = h_in.b
    /\ h_out.retval = FALSE

\* the datum of the elements a user wrote, when no element is written twice
e_value == ovsdb_datum_sort([n |-> Len(h_in.cond.val.keys),
                             keys |-> h_in.cond.val.keys,
                             values |-> <<>>], "integer")

\* the datum of the map column of the condition, "m" or "y"
e_have == IF h_in.cond.col = <<"y">> THEN h_in.row.cols[4]
          ELSE h_in.row.cols[2]

\* C10: in a condition COLUMN:KEY OP VALUE on a map column, an absent KEY
\* makes =, !=, <, >, <=, >= false and makes each set operator compare the
\* empty datum with VALUE; a present KEY makes every operator compare the
\* one-element datum of the value stored at KEY with VALUE.  A key on a
\* column that is no map is a fatal error.
C10_KeyCondition ==
    (h_pc = "is_condition_satisfied" /\ h_in.cond.key # 0) =>
        IF h_in.cond.col \notin {<<"m">>, <<"y">>}
        THEN h_out.fatal = "cannot specify key to check for non-map column"
        ELSE LET key     == h_in.cond.key
                 op      == h_in.cond.op
                 present == \E i \in 1..e_have.n : e_have.keys[i] = key
                 at      == CHOOSE i \in 1..e_have.n : e_have.keys[i] = key
                 one     == [n |-> 1, keys |-> <<e_have.values[at]>>,
                             values |-> <<>>]
             IN  ~e_value.error =>
                   /\ h_out.fatal = ""
                   /\ (~present /\ ~is_set_operator(op)) => h_out.retval = FALSE
                   /\ (~present /\ is_set_operator(op)) =>
                         h_out.retval = evaluate_relop(ovsdb_datum_init_empty,
                                            e_value.datum, type_set, op)
                   /\ present =>
                         h_out.retval = evaluate_relop(one, e_value.datum,
                                                       type_set, op)

\* m:3!=1 on a map without key 3: false, though the empty datum differs
\* from [1]
C10_Witness ==
    /\ h_pc = "is_condition_satisfied"
    /\ h_in.arg = <<"m", ":", "3", "!", "=", "1">>
    /\ e_have.n = 2
    /\ h_out.fatal = ""
    /\ h_out.retval = FALSE
    /\ evaluate_relop(ovsdb_datum_init_empty, e_value.datum, type_set, RELOP_NE)

(***************************************************************************)
(* Properties of the row resolver (RowSpec).                               *)
(***************************************************************************)
\* the rows of table t in the IDL
w_rows(t) == { u \in DOMAIN ctx.idl : ctx.idl[u].table = t }

\* the rows of id's table whose name is the single string record_id
w_named(id) ==
    { u \in w_rows(id.table) :
        ctx.idl[u].cols[id.name_column] = strings(<<h_in.record_id>>) }

\* the row of "T" that referrer u stands for under id
w_final(id, u) ==
    IF id.uuid_column = NULL THEN u
    ELSE LET ref == ctx.idl[u].cols[id.uuid_column]
         IN  IF ref.n = 1 /\ ref.keys[1] \in w_rows(1) THEN ref.keys[1] ELSE NULL

\* C8: with a name_column, get_row_by_id finds the rows of id.table whose
\* name is the single string record_id: none is no match, one is the
\* referrer, more are the fatal error "multiple rows match"; without a
\* name_column the referrer is the only row of id.table, and only for ".";
\* with a uuid_column the row returned is the one of the target table that
\* the referrer's column names, none when that column is empty.
C8_UniqueReferrer ==
    h_pc = "get_row_by_id" =>
        LET id == tables[1].row_ids[1]
        IN  IF id.table = NULL THEN h_out.fatal = "" /\ h_out.row = NULL
            ELSE IF id.name_column # NULL
            THEN /\ Cardinality(w_named(id)) = 0 =>
                        h_out.fatal = "" /\ h_out.row = NULL
                 /\ Cardinality(w_named(id)) = 1 =>
                        /\ h_out.fatal = ""
                        /\ \A u \in w_named(id) : h_out.row = w_final(id, u)
                 /\ Cardinality(w_named(id)) >= 2 =>
                        h_out.fatal = "multiple rows match" /\ h_out.row = NULL
            ELSE /\ h_out.fatal = ""
                 /\ IF h_in.record_id = <<".">> /\ Cardinality(w_rows(id.table)) = 1
                    THEN \A u \in w_rows(id.table) : h_out.row = w_final(id, u)
                    ELSE h_out.row = NULL

\* two rows of "R" are named "a": fatal, whatever they refer to
C8_Witness ==
    /\ h_pc = "get_row_by_id"
    /\ tables[1].row_ids[1] = [table |-> 2, name_column |-> 1, uuid_column |-> 2]
    /\ h_in.record_id = <<"a">>
    /\ Cardinality(w_named(tables[1].row_ids[1])) = 2
    /\ h_out.fatal = "multiple rows match"

\* what descriptor i gives for the record
w_by_id(i) == get_row_by_id(ctx.idl, 1, tables[1].row_ids[i], h_in.record_id)

\* the descriptors that decide: those that give a row or end fatally
w_deciding == { i \in DOMAIN tables[1].row_ids :
                  w_by_id(i).row # NULL \/ w_by_id(i).fatal # "" }

\* C7: a record_id that is the UUID of a cached row of the table gives that
\* row, no descriptor being consulted; otherwise the descriptors are tried
\* in declaration order and the first to give a row decides (one that ends
\* in "multiple rows match" before that ends get_row with it); when none
\* gives a row the result is the fatal error "no row" if must_exist and no
\* row and no error if not.
C7_GetRow ==
    h_pc = "get_row" =>
        IF uuid_from_string(h_in.record_id).ok
           /\ uuid_from_string(h_in.record_id).uuid \in w_rows(1)
        THEN /\ h_out.fatal = ""
             /\ h_out.row = uuid_from_string(h_in.record_id).uuid
             /\ h_out.verify = {}
        ELSE IF w_deciding = {}
             THEN /\ h_out.row = NULL
                  /\ h_out.fatal = IF h_in.must_exist THEN "no row in table"
                                   ELSE ""
             ELSE LET first == CHOOSE i \in w_deciding :
                                  \A j \in w_deciding : i <= j
                  IN  /\ h_out.row = w_by_id(first).row
                      /\ h_out.fatal = w_by_id(first).fatal

\* both descriptors give a row for "a", and not the same one: the first's
C7_Witness ==
    /\ h_pc = "get_row"
    /\ h_in.record_id = <<"a">>
    /\ w_deciding = {1, 2}
    /\ w_by_id(1).row # NULL
    /\ w_by_id(2).row # NULL
    /\ w_by_id(1).row # w_by_id(2).row
    /\ h_out.row = w_by_id(1).row

(***************************************************************************)
(* Properties of the interpreter (Spec).  h_in is the command last run,    *)
(* h_out the context it was run from and ctx the context it left.          *)
(***************************************************************************)
\* the command last run is a 'name' command
last_is(name) == Len(h_in.argv) > 0 /\ h_in.argv[1] = name

\* the context that the pre pass of the command last run has left
last_pre == syntax_pre(ctl_context_init_command(h_out, h_in))

\* the writes the command last run has staged
staged == SubSeq(ctx.txn.writes, Len(h_out.txn.writes) + 1,
                 Len(ctx.txn.writes))

\* C1, as the specification states it: after a command that completes
\* without a fatal error, every datum it has staged with
\* ovsdb_idl_txn_write has a size between n_min and n_max of its column's
\* type, in the form COL=VALUE and in the form COL:KEY=VALUE alike.
C1_AsStated ==
    (h_in # no_command /\ ctx.error = "") =>
        \A i \in DOMAIN staged :
            /\ column_type(tables[ctx.idl[staged[i].row].table],
                           staged[i].column).n_min <= staged[i].datum.n
            /\ staged[i].datum.n <=
                   column_type(tables[ctx.idl[staged[i].row].table],
                               staged[i].column).n_max

\* C2: once a command has ended in ctl_fatal the process has left with
\* EXIT_FAILURE and does nothing more, the transaction is not committed,
\* and the database only ever changes in a run in which no command has
\* ended in ctl_fatal: nothing staged by the failing command or by the
\* commands before it is persisted.
C2_FatalAborts ==
    /\ [](ctx.error # "" =>
             /\ ctx.status = "EXIT_FAILURE"
             /\ ~ctx.txn.committed)
    /\ [][ctx.error # "" => (db' = db /\ ctx' = ctx)]_vars
    /\ [][db' # db => (ctx.error = "" /\ ctx'.error = "")]_vars

\* a multi-column clear that has written a column and then failed, after
\* an earlier command of the stream had staged a write
C2_Witness ==
    /\ ctx.error # ""
    /\ last_is(<<"c", "l", "e", "a", "r">>)
    /\ Len(h_out.commands) >= 1
    /\ Len(h_out.txn.writes) >= 1
    /\ Len(staged) >= 1
    /\ db # ctx.idl

\* C3: no symbol is marked created twice; a command that carries the --id
\* of a command that ran before it in the stream ends fatally, whichever
\* of create and get the two are; and so does a command whose --id does not
\* begin with "@".
C3_CreatedOnce ==
    /\ \A i, j \in DOMAIN ctx.created :
           ctx.created[i] = ctx.created[j] => i = j
    /\ \A k \in DOMAIN h_out.commands :
           (/\ h_in.options.has_id
            /\ h_out.commands[k].options.has_id
            /\ h_out.commands[k].options.id = h_in.options.id)
           => ctx.error # ""
    /\ (h_in.options.has_id /\ At(h_in.options.id, 1) # "@")
           => ctx.error # ""

\* a create whose --id a get before it in the stream has bound
C3_Witness ==
    /\ ctx.error = "row id may only be specified on one --id option"
    /\ last_is(<<"c", "r", "e", "a", "t", "e">>)
    /\ \E k \in DOMAIN h_out.commands :
           /\ h_out.commands[k].argv[1] = <<"g", "e", "t">>
           /\ h_out.commands[k].options.has_id
           /\ h_out.commands[k].options.id = h_in.options.id
    /\ h_out.symtab[h_in.options.id].created
    /\ ctx.created = h_out.created

e_wider ==
    /\ h_pc = "is_condition_satisfied"
    /\ h_in.cond # no_cond
    /\ \A i, j \in DOMAIN h_in.cond.val.keys :
           h_in.cond.val.keys[i] = h_in.cond.val.keys[j] => i = j
    /\ \E c \in DOMAIN tables[1].class.columns :
           /\ tables[1].class.columns[c].name = h_in.cond.col
           /\ Len(h_in.cond.val.keys) > column_type(tables[1], c).n_max

\* C11, as the specification states it: a condition whose value holds more
\* elements than the column's n_max is compared, not rejected, in the form
\* COLUMN OP VALUE and in the form COLUMN:KEY OP VALUE alike.
C11_AsStated == e_wider => h_out.fatal = ""

\* C11, for the form COLUMN:KEY OP VALUE alone: there such a value is
\* compared
C11_KeyForm == (e_wider /\ h_in.cond.key # 0) => h_out.fatal = ""

(***************************************************************************)
(* More properties of the interpreter (Spec).                              *)
(***************************************************************************)
s_set    == <<"s", "e", "t">>
s_add    == <<"a", "d", "d">>
s_remove == <<"r", "e", "m", "o", "v", "e">>
s_clear  == <<"c", "l", "e", "a", "r">>
s_create == <<"c", "r", "e", "a", "t", "e">>

\* the command last run names a table and a record that get_table and
\* get_row resolved, to last_table and last_row
last_resolved ==
    /\ Len(h_in.argv) >= 3
    /\ get_table(h_in.argv[2]).fatal = ""
    /\ get_row(h_out.idl, get_table(h_in.argv[2]).table, h_in.argv[3],
               TRUE).fatal = ""

last_table == get_table(h_in.argv[2]).table

last_row == get_row(h_out.idl, last_table, h_in.argv[3], TRUE).row

\* the column that the first column argument of the command last run
\* names: a column name for add, remove and clear, COLUMN[:KEY]=VALUE for
\* set (NULL if it names none)
last_column ==
    IF last_is(s_set)
    THEN parse_column_key_value(h_in.argv[4], tables[last_table], <<>>,
                                TRUE).column
    ELSE get_column(tables[last_table], h_in.argv[4]).column

\* C12: set, add, remove and clear on a column that is not mutable end in
\* "cannot modify read-only column" with no write staged, for set also
\* when the value does not fit the column's type; and no write to a
\* column that is not mutable, of a row that is still there, is ever staged.
C12_ReadOnly ==
    /\ \A i \in DOMAIN ctx.txn.writes :
           ctx.txn.writes[i].row \in DOMAIN ctx.idl =>
               ovsdb_idl_is_mutable(ctx, ctx.txn.writes[i].row,
                                    ctx.txn.writes[i].column)
    /\ (/\ \/ last_is(s_set)
           \/ last_is(s_add)
           \/ last_is(s_remove)
           \/ last_is(s_clear)
        /\ last_resolved
        /\ last_column # NULL
        /\ ~ovsdb_idl_is_mutable(h_out, last_row, last_column))
       => /\ ctx.error = "cannot modify read-only column"
          /\ staged = <<>>

\* set Port p name=q,r: two values for a column of one, and read-only
C12_Witness ==
    /\ last_is(s_set)
    /\ h_in.argv[4] = <<"n", "a", "m", "e", "=", "q", ",", "r">>
    /\ ovsdb_datum_from_string(column_type(tables[last_table], last_column),
                               <<"q", ",", "r">>, << >>).error # ""
    /\ ctx.error = "cannot modify read-only column"
    /\ ctx.status = "EXIT_FAILURE"

\* a VALUE argument as the user means it: KEY=VALUE is a pair, anything
\* else a key; an integer is written as one digit
is_digit(t) == Len(t) = 1 /\ \E d \in DOMAIN Digits : Digits[d] = t[1]

digit(t) == CHOOSE d \in DOMAIN Digits : Digits[d] = t[1]

is_pair(a) == Len(a) = 3 /\ a[2] = "=" /\ is_digit(<<a[1]>>) /\ is_digit(<<a[3]>>)

is_key(a, base_type) ==
    CASE base_type = "string" -> TRUE
      [] base_type = "uuid" -> Len(a) = 2 /\ a[1] = "#" /\ is_digit(<<a[2]>>)
      [] OTHER -> is_digit(a)

key_of(a, base_type) ==
    CASE base_type = "string" -> a
      [] base_type = "uuid" -> digit(<<a[2]>>)
      [] OTHER -> digit(a)

\* the VALUE arguments of the command last run, argv[5] onwards
last_values == { h_in.argv[i] : i \in 5..Len(h_in.argv) }

last_type == column_type(tables[last_table], last_column)

\* what is left of the elements of 'old' when the VALUE arguments are
\* taken away: of a set its keys, of a map its pairs, a pair going when it
\* is named in full or when its key is named
removed_from(old, type) ==
    IF ovsdb_type_is_map(type)
    THEN { e \in Elements(old, type) :
             ~\E a \in last_values :
                 \/ is_pair(a) /\ e = <<digit(<<a[1]>>), digit(<<a[3]>>)>>
                 \/ is_key(a, type.key.type) /\ ~is_pair(a)
                    /\ e[1] = key_of(a, type.key.type) }
    ELSE { e \in Elements(old, type) :
             ~\E a \in last_values : e = key_of(a, type.key.type) }

\* C13: remove on a mutable column of a row that is there.  On a set a
\* VALUE that is no element of the key type is fatal; otherwise what is
\* left of the row's datum when every VALUE is taken away is written, in
\* one write, if it has at least n_min elements, and if not the command is
\* fatal; a fatal remove stages no write.  On a map a VALUE that is no pair
\* is a key, and takes the entry with that key away whatever its value.
C13_Remove ==
    (/\ last_is(s_remove)
     /\ last_resolved
     /\ last_column # NULL
     /\ ovsdb_idl_is_mutable(h_out, last_row, last_column))
    => IF \E a \in last_values :
              ~is_key(a, last_type.key.type)
              /\ ~(ovsdb_type_is_map(last_type) /\ is_pair(a))
       THEN ctx.error # "" /\ staged = <<>>
       ELSE IF Cardinality(removed_from(ovsdb_idl_read(h_out, last_row,
                                                       last_column),
                                        last_type)) < last_type.n_min
       THEN /\ ctx.error = "\"remove\" operation would put too few values in column"
            /\ staged = <<>>
       ELSE /\ ctx.error = ""
            /\ Len(staged) = 1
            /\ staged[1].row = last_row
            /\ staged[1].column = last_column
            /\ Elements(staged[1].datum, last_type)
                   = removed_from(ovsdb_idl_read(h_out, last_row, last_column),
                                  last_type)
            /\ staged[1].datum.n = Cardinality(Elements(staged[1].datum,
                                                        last_type))

\* remove Port p ids 1 on a map that holds 1=2: the entry goes
C13_Witness ==
    /\ last_is(s_remove)
    /\ h_in.argv[4] = <<"i", "d", "s">>
    /\ last_values = { <<"1">> }
    /\ Elements(ovsdb_idl_read(h_out, last_row, last_column), last_type)
           = { <<1, 2>> }
    /\ ctx.error = ""
    /\ staged[1].datum.n = 0

\* the datum that the k'th write of the transaction found in its column:
\* that of the last write to the column before it, or the database's
before_write(k) ==
    IF \E j \in 1..(k - 1) :
           /\ ctx.txn.writes[j].row = ctx.txn.writes[k].row
           /\ ctx.txn.writes[j].column = ctx.txn.writes[k].column
    THEN ctx.txn.writes[
             CHOOSE j \in 1..(k - 1) :
                 /\ ctx.txn.writes[j].row = ctx.txn.writes[k].row
                 /\ ctx.txn.writes[j].column = ctx.txn.writes[k].column
                 /\ \A i \in (j + 1)..(k - 1) :
                        \/ ctx.txn.writes[i].row # ctx.txn.writes[k].row
                        \/ ctx.txn.writes[i].column # ctx.txn.writes[k].column
         ].datum
    ELSE db[ctx.txn.writes[k].row].cols[ctx.txn.writes[k].column]

\* the command last run is "remove TABLE RECORD COL V" on a set column,
\* has succeeded with a write, and the command before it was
\* "add TABLE RECORD COL V" with the same arguments
add_then_remove ==
    /\ h_pc = "run"
    /\ last_is(s_remove)
    /\ Len(h_in.argv) = 5
    /\ ctx.error = ""
    /\ Len(staged) = 1
    /\ Len(h_out.commands) >= 1
    /\ h_out.commands[Len(h_out.commands)].argv = [h_in.argv EXCEPT ![1] = s_add]
    /\ ~ovsdb_type_is_map(last_type)
    /\ Len(ctx.txn.writes) >= 2

\* C14: add V and then remove V, on a set column of a row whose datum did
\* not hold V, leaves the datum with the elements it had before the add.
C14_AddRemove ==
    (/\ add_then_remove
     /\ key_of(h_in.argv[5], last_type.key.type)
            \notin Elements(before_write(Len(ctx.txn.writes) - 1), last_type))
    => /\ ctx.txn.writes[Len(ctx.txn.writes) - 1].row = last_row
       /\ ctx.txn.writes[Len(ctx.txn.writes) - 1].column = last_column
       /\ Elements(ovsdb_idl_read(ctx, last_row, last_column), last_type)
              = Elements(before_write(Len(ctx.txn.writes) - 1), last_type)
       /\ ovsdb_idl_read(ctx, last_row, last_column).n
              = before_write(Len(ctx.txn.writes) - 1).n

\* add Bridge b ports #1 and remove Bridge b ports #1 on a bridge whose
\* ports held #2: they hold #2 again, having held both
C14_Witness ==
    /\ add_then_remove
    /\ h_in.argv[4] = <<"p", "o", "r", "t", "s">>
    /\ Elements(before_write(Len(ctx.txn.writes) - 1), last_type) = {2}
    /\ Elements(ctx.txn.writes[Len(ctx.txn.writes) - 1].datum, last_type) = {1, 2}
    /\ Elements(ovsdb_idl_read(ctx, last_row, last_column), last_type) = {2}

\* the column that argument i of the command last run names (for clear)
named_column(i) == get_column(tables[last_table], h_in.argv[i]).column

\* C15: a clear that names a column whose type has n_min > 0 ends fatally
\* with no write to that column staged; a clear of mutable columns with
\* n_min = 0 writes the empty datum to each, in order, so that the column
\* reads as the default datum of its type whatever was set before.
C15_Clear ==
    (last_is(s_clear) /\ last_resolved) =>
        /\ \A i \in 4..Len(h_in.argv) :
               (/\ named_column(i) # NULL
                /\ column_type(tables[last_table], named_column(i)).n_min > 0)
               => /\ ctx.error # ""
                  /\ ctx.status = "EXIT_FAILURE"
                  /\ \A k \in DOMAIN staged :
                         staged[k].column # named_column(i)
        /\ (\A i \in 4..Len(h_in.argv) :
                /\ named_column(i) # NULL
                /\ column_type(tables[last_table], named_column(i)).n_min = 0
                /\ ovsdb_idl_is_mutable(h_out, last_row, named_column(i)))
           => /\ ctx.error = ""
              /\ Len(staged) = Len(h_in.argv) - 3
              /\ \A k \in DOMAIN staged :
                     /\ staged[k].row = last_row
                     /\ staged[k].column = named_column(k + 3)
                     /\ staged[k].datum = ovsdb_datum_init_empty
                     /\ ovsdb_idl_read(ctx, last_row, staged[k].column)
                            = ovsdb_datum_init_default(
                                  column_type(tables[last_table],
                                              staged[k].column))

\* set Port p tag=1 and then clear Port p tag: the tag is empty again
C15_Witness ==
    /\ last_is(s_clear)
    /\ h_in.argv[4] = <<"t", "a", "g">>
    /\ Len(h_out.commands) = 1
    /\ h_out.commands[1].argv[1] = s_set
    /\ h_out.commands[1].argv[4] = <<"t", "a", "g", "=", "1">>
    /\ ovsdb_idl_read(h_out, 2, 2).n = 1
    /\ ctx.error = ""
    /\ ovsdb_idl_read(ctx, 2, 2).n = 0

\* the output of a command is one line that holds a uuid
uuid_line(output) ==
    /\ Len(output) >= 1
    /\ output[Len(output)] = "\n"
    /\ uuid_from_string(SubSeq(output, 1, Len(output) - 1)).ok
    /\ \A k \in 1..(Len(output) - 1) : output[k] # "\n"

\* a create that has completed has inserted the one row u, in the table
\* named and under the symbol's uuid when it has an --id, has staged one
\* write to u for each assignment, and has u's text as its output
create_inserted(u) ==
    /\ ctx.txn.inserted = h_out.txn.inserted \cup {u}
    /\ DOMAIN ctx.idl = DOMAIN h_out.idl \cup {u}
    /\ u \notin DOMAIN h_out.idl
    /\ ctx.idl[u].table = get_table(h_in.argv[2]).table
    /\ h_in.options.has_id => u = ctx.symtab[h_in.options.id].uuid
    /\ ctx.commands[Len(ctx.commands)].output = uuid_to_string(u)
    /\ uuid_from_string(uuid_to_string(u)) = [ok |-> TRUE, uuid |-> u]
    /\ Len(staged) = Len(h_in.argv) - 2
    /\ \A k \in DOMAIN staged :
           /\ staged[k].row = u
           /\ staged[k].column =
                  parse_column_key_value(h_in.argv[k + 2], tables[ctx.idl[u].table],
                                         <<>>, TRUE).column

\* what the post pass makes of the output of command i, at the commit
posted_output(i) ==
    IF ctx.commands[i].argv[1] # s_create THEN ctx.commands[i].output
    ELSE IF ovsdb_idl_txn_get_insert_uuid(
                ctx'.txn, uuid_from_string(ctx.commands[i].output).uuid) # NULL
    THEN uuid_to_string(ovsdb_idl_txn_get_insert_uuid(
                            ctx'.txn,
                            uuid_from_string(ctx.commands[i].output).uuid))
         \o <<"\n">>
    ELSE ctx.commands[i].output \o <<"\n">>

\* C16: a create that completes has inserted exactly one row, under the
\* symbol's uuid when --id is given, has applied each assignment to it and
\* has the row's provisional uuid as its sole output; the commit replaces
\* the output of each create by the permanent uuid of its row, or keeps
\* the provisional one when the transaction has none, and appends a
\* new-line, so that in the end each create has one line with one uuid.
C16_Create ==
    /\ []((h_pc = "run" /\ last_is(s_create) /\ ctx.error = "") =>
              \E u \in ctx.txn.inserted \ h_out.txn.inserted :
                  create_inserted(u))
    /\ [](h_pc = "done" =>
              \A i \in DOMAIN ctx.commands :
                  ctx.commands[i].argv[1] = s_create
                  => uuid_line(ctx.commands[i].output))
    /\ [][(h_pc = "run" /\ h_pc' = "done") =>
              /\ DOMAIN ctx'.commands = DOMAIN ctx.commands
              /\ DOMAIN ctx'.txn.real = ctx.txn.inserted
              /\ \A i \in DOMAIN ctx.commands :
                     ctx'.commands[i].output = posted_output(i)]_vars

\* a stream of two creates, committed: the first, with an --id, prints the
\* permanent uuid of its row and the second, whose row the transaction
\* has no permanent uuid for, the provisional one
C16_Witness ==
    /\ h_pc = "done"
    /\ Len(ctx.commands) = 2
    /\ ctx.commands[1].argv[1] = s_create
    /\ ctx.commands[1].options.has_id
    /\ ctx.commands[2].argv[1] = s_create
    /\ ctx.commands[1].output
           = uuid_to_string(RealUuid(ctx.symtab[ctx.commands[1].options.id].uuid))
             \o <<"\n">>
    /\ \E u \in ctx.txn.inserted :
           /\ ctx.txn.real[u] = NULL
           /\ ctx.commands[2].output = uuid_to_string(u) \o <<"\n">>


s_wait_until == <<"w", "a", "i", "t", "-", "u", "n", "t", "i", "l">>

\* the record that the wait-until last run names, resolved as cmd_wait_until
\* resolves it: a missing record is no error
waited == get_row(h_out.idl, last_table, h_in.argv[3], FALSE)

\* what is_condition_satisfied makes of the i-th argument of the wait-until
\* last run, on the record as it was before the command
waited_condition(i) ==
    is_condition_satisfied(tables[last_table], h_out.idl[waited.row],
                           h_in.argv[i], h_out.symtab)

condition_holds(i) ==
    waited_condition(i).fatal = "" /\ waited_condition(i).retval

\* the i-th argument is the first condition that is false
first_false(i) ==
    /\ waited_condition(i).fatal = ""
    /\ ~waited_condition(i).retval
    /\ \A j \in 4..(i - 1) : condition_holds(j)

\* C17: wait-until stages no write and inserts and deletes no row; a record
\* that is missing is no fatal error and sets try_again; on a record that
\* exists, try_again is false if every condition holds, and true, with no
\* fatal error, if some condition is false and those before it hold,
\* whatever the conditions after it are; and a wait-until that completes has
\* try_again set exactly when the record is missing or a condition is false.
C17_WaitUntil ==
    (/\ last_is(s_wait_until)
     /\ Len(h_in.argv) >= 3
     /\ get_table(h_in.argv[2]).fatal = ""
     /\ waited.fatal = "") =>
        /\ staged = <<>>
        /\ ctx.txn.inserted = h_out.txn.inserted
        /\ ctx.txn.deleted = h_out.txn.deleted
        /\ ctx.idl = h_out.idl
        /\ (waited.row = NULL) => (ctx.error = "" /\ ctx.try_again)
        /\ (waited.row # NULL) =>
               /\ (\A i \in 4..Len(h_in.argv) : condition_holds(i)) =>
                      (ctx.error = "" /\ ~ctx.try_again)
               /\ \A i \in 4..Len(h_in.argv) :
                      first_false(i) => (ctx.error = "" /\ ctx.try_again)
               /\ (ctx.error = "" /\ ctx.try_again) =>
                      \E i \in 4..Len(h_in.argv) : first_false(i)

\* a wait-until whose first condition is false and whose second one is
\* malformed has set try_again and completed
C17_Witness ==
    /\ last_is(s_wait_until)
    /\ Len(h_in.argv) = 5
    /\ waited.fatal = ""
    /\ waited.row # NULL
    /\ first_false(4)
    /\ waited_condition(5).fatal # ""
    /\ ctx.error = ""
    /\ ctx.try_again


(***************************************************************************)
(* The execution driver's loop (LoopSpec, and LiveSpec with fairness).     *)
(* h_in is the command stream, fixed for the process; db is the database   *)
(* on the server, which another actor changes; h_out.base is the IDL's     *)
(* snapshot of it, which the attempt under way reads; ctx is the context   *)
(* of that attempt.  h_pc is "run" while an attempt runs its commands,     *)
(* "wait" while the driver waits for the IDL to report a change, and       *)
(* "done" when the process has exited.                                     *)
(***************************************************************************)
MaxChanges == 2

s_get == <<"g", "e", "t">>

Streams ==
    {
    \* wait-until Port p tag=1
      << command(FALSE, <<>>, FALSE,
              <<<<"w", "a", "i", "t", "-", "u", "n", "t", "i", "l">>,
                <<"P", "o", "r", "t">>,
                <<"p">>,
                <<"t", "a", "g", "=", "1">>>>) >>,
    \* wait-until Port zz tag=1
      << command(FALSE, <<>>, FALSE,
              <<<<"w", "a", "i", "t", "-", "u", "n", "t", "i", "l">>,
                <<"P", "o", "r", "t">>,
                <<"z", "z">>,
                <<"t", "a", "g", "=", "1">>>>) >>,
    \* --id=@x create Port name=q, wait-until Port p tag=1
      << command(TRUE, <<"@", "x">>, FALSE,
              <<<<"c", "r", "e", "a", "t", "e">>,
                <<"P", "o", "r", "t">>,
                <<"n", "a", "m", "e", "=", "q">>>>),
         command(FALSE, <<>>, FALSE,
              <<<<"w", "a", "i", "t", "-", "u", "n", "t", "i", "l">>,
                <<"P", "o", "r", "t">>,
                <<"p">>,
                <<"t", "a", "g", "=", "1">>>>) >>,
    \* get Port p tag, set Port p ids:1=2
      << command(FALSE, <<>>, FALSE,
              <<<<"g", "e", "t">>,
                <<"P", "o", "r", "t">>,
                <<"p">>,
                <<"t", "a", "g">>>>),
         command(FALSE, <<>>, FALSE,
              <<<<"s", "e", "t">>,
                <<"P", "o", "r", "t">>,
                <<"p">>,
                <<"i", "d", "s", ":", "1", "=", "2">>>>) >>,
    \* wait-until Port p tag=1 tag=x
      << command(FALSE, <<>>, FALSE,
              <<<<"w", "a", "i", "t", "-", "u", "n", "t", "i", "l">>,
                <<"P", "o", "r", "t">>,
                <<"p">>,
                <<"t", "a", "g", "=", "1">>,
                <<"t", "a", "g", "=", "x">>>>) >>
    }

\* the handler of the command in the context
syntax_run(c) ==
    IF c.argv[1] = s_set THEN cmd_set(c)
    ELSE IF c.argv[1] = s_add THEN cmd_add(c)
    ELSE IF c.argv[1] = s_remove THEN cmd_remove(c)
    ELSE IF c.argv[1] = s_clear THEN cmd_clear(c)
    ELSE IF c.argv[1] = s_create THEN cmd_create(c)
    ELSE IF c.argv[1] = s_get THEN cmd_get(c)
    ELSE IF c.argv[1] = <<"d", "e", "s", "t", "r", "o", "y">>
    THEN cmd_destroy(c)
    ELSE cmd_wait_until(c)

\* one iteration of the driver's loop over the commands
driver_step(c, cmd) ==
    ctl_context_done_command(syntax_run(ctl_context_init_command(c, cmd)),
                             cmd)

\* ctl_context_init(ctx, NULL, idl, txn, symtab, invalidate_cache) at the
\* start of an attempt, with a new transaction and a new symbol table
ctl_context_init(c, rows) ==
    [c EXCEPT !.idl = rows,
              !.txn = [ctx_init(rows).txn EXCEPT !.open = TRUE],
              !.symtab = << >>,
              !.invalidate_cache = TRUE]

\* ctl_context_done(ctx, NULL)
ctl_context_done(c) == invalidate_cache(c)

\* a try-again that destroys the transaction and the outputs only
driver_discard_keeps_symtab(c, rows) ==
    [c EXCEPT !.idl = rows,
              !.txn = ctx_init(rows).txn,
              !.commands = <<>>]

\* the driver on try_again: the transaction is aborted and the symbol table
\* and every command's output are destroyed
driver_discard(c, rows) ==
    [c EXCEPT !.idl = rows,
              !.txn = ctx_init(rows).txn,
              !.symtab = << >>,
              !.created = <<>>,
              !.commands = <<>>]

\* the commit has an update to send and a column that the attempt verified
\* is no longer in the database as the attempt read it
txn_conflict(c, rows, snapshot) ==
    /\ c.txn.writes # <<>> \/ c.txn.inserted # {}
    /\ \E v \in c.txn.verify :
           \/ v[1] \notin DOMAIN rows
           \/ rows[v[1]].cols[v[2]] # snapshot[v[1]].cols[v[2]]

\* the database after the commit of the transaction: the rows inserted and
\* the columns written are as the attempt left them, the rows deleted gone
txn_apply(c, rows) ==
    [u \in (DOMAIN rows \cup c.txn.inserted) \ c.txn.deleted |->
        IF u \in c.txn.inserted THEN c.idl[u]
        ELSE [rows[u] EXCEPT !.cols =
                 [k \in DOMAIN rows[u].cols |->
                    IF \E w \in DOMAIN c.txn.writes :
                           /\ c.txn.writes[w].row = u
                           /\ c.txn.writes[w].column = k
                    THEN c.idl[u].cols[k]
                    ELSE rows[u].cols[k]]]]

\* the context after a commit that succeeded, the rows inserted known by
\* the uuids of 'real', and after the post pass
driver_committed(c, real) ==
    post_pass([c EXCEPT !.txn.open = FALSE, !.txn.committed = TRUE,
                        !.txn.real = real],
              1)

LoopInit ==
    /\ tables = Schema
    /\ db \in Databases
    /\ h_in \in Streams
    /\ ctx = ctl_context_init(ctx_init(db), db)
    /\ h_pc = "run"
    /\ h_out = [base |-> db, changes |-> 0, attempt |-> 1]

\* the next command of the stream has run and left the context c: the
\* process has exited, or the command has set try_again and the attempt is
\* discarded, or the loop goes on
d_ran(c) ==
    /\ IF c.status # "running"
       THEN ctx' = c /\ h_pc' = "done"
       ELSE IF c.try_again
       THEN /\ ctx' = driver_discard(ctl_context_done(c), h_out.base)
            /\ h_pc' = "wait"
       ELSE ctx' = c /\ h_pc' = "run"
    /\ UNCHANGED <<tables, db, h_in, h_out>>

\* the loop has a command to run
d_run_enabled ==
    /\ h_pc = "run"
    /\ ctx.status = "running"
    /\ Len(ctx.commands) < Len(h_in)

d_run ==
    /\ d_run_enabled
    /\ d_ran(driver_step(ctx, h_in[Len(ctx.commands) + 1]))

\* the end of the stream: ctl_context_done and the commit, which reports
\* try-again or succeeds; on success the post pass and exit
d_commit ==
    /\ h_pc = "run"
    /\ ctx.status = "running"
    /\ Len(ctx.commands) = Len(h_in)
    /\ IF txn_conflict(ctx, db, h_out.base)
       THEN /\ ctx' = driver_discard(ctl_context_done(ctx), h_out.base)
            /\ h_pc' = "wait"
            /\ db' = db
       ELSE /\ \E known \in SUBSET ctx.txn.inserted :
                   ctx' = ctl_exit(
                              driver_committed(
                                  ctl_context_done(ctx),
                                  [u \in ctx.txn.inserted |->
                                     IF u \in known
                                     THEN RealUuid(u) ELSE NULL]),
                              "EXIT_SUCCESS")
            /\ h_pc' = "done"
            /\ db' = txn_apply(ctx, db)
    /\ UNCHANGED <<tables, h_in, h_out>>

\* the IDL reports an update of the database: the next attempt starts, on
\* the new snapshot
d_wake ==
    /\ h_pc = "wait"
    /\ db # h_out.base
    /\ ctx' = ctl_context_init(ctx, db)
    /\ h_out' = [h_out EXCEPT !.base = db, !.attempt = @ + 1]
    /\ h_pc' = "run"
    /\ UNCHANGED <<tables, db, h_in>>

\* another actor writes the tag of port "p"
other_tag ==
    /\ h_pc # "done"
    /\ h_out.changes < MaxChanges
    /\ \E tag \in { ovsdb_datum_init_empty,
                    [n |-> 1, keys |-> <<1>>, values |-> <<>>],
                    [n |-> 1, keys |-> <<2>>, values |-> <<>>] } :
           /\ tag # db[2].cols[2]
           /\ db' = [db EXCEPT ![2].cols[2] = tag]
    /\ h_out' = [h_out EXCEPT !.changes = @ + 1]
    /\ UNCHANGED <<tables, ctx, h_in, h_pc>>

\* another actor inserts the port "zz", as row #3
other_insert ==
    /\ h_pc # "done"
    /\ h_out.changes < MaxChanges
    /\ 3 \notin DOMAIN db
    /\ \E tag \in { ovsdb_datum_init_empty,
                    [n |-> 1, keys |-> <<1>>, values |-> <<>>] } :
           db' = (3 :> [table |-> 2,
                        cols  |-> << strings(<< <<"z", "z">> >>), tag,
                                     ovsdb_datum_init_empty >>]) @@ db
    /\ h_out' = [h_out EXCEPT !.changes = @ + 1]
    /\ UNCHANGED <<tables, ctx, h_in, h_pc>>

LoopNext ==
    \/ d_run
    \/ d_commit
    \/ d_wake
    \/ other_tag
    \/ other_insert

LoopSpec == LoopInit /\ [][LoopNext]_vars

\* the driver is single-threaded and blocks only in its wait for the IDL:
\* it runs the command it has to run, commits at the end of the stream and
\* starts an attempt when the IDL has reported a change.  The fairness of
\* d_run is WF_vars(d_run) written out: every d_run step changes ctx or
\* h_pc, so <<d_run>>_vars is enabled exactly when d_run_enabled holds.
LiveSpec ==
    /\ LoopSpec
    /\ []<>(~d_run_enabled) \/ []<><<d_run>>_vars
    /\ WF_vars(d_commit)
    /\ WF_vars(d_wake)


(***************************************************************************)
(* Properties of the driver's loop (LoopSpec, LiveSpec).                   *)
(***************************************************************************)
\* what an attempt has made: the rows as it sees them, its transaction,
\* its symbols, the commands it has run with their outputs, and its end
attempt_state(c) ==
    [idl |-> c.idl, txn |-> c.txn, symtab |-> c.symtab,
     created |-> c.created, commands |-> c.commands,
     error |-> c.error, status |-> c.status]

\* the context of a process that runs the first n commands of the stream on
\* the snapshot 'rows' as its first attempt
RECURSIVE replay(_, _)
replay(rows, n) ==
    IF n = 0 THEN ctl_context_init(ctx_init(rows), rows)
    ELSE driver_step(replay(rows, n - 1), h_in[n])

\* C18: an attempt, whichever it is, is as the first attempt of a process
\* started on the same snapshot: while it runs, when a command of it ends
\* fatally, and in the outputs it leaves when its commit succeeds; while
\* the driver waits to retry, the transaction, the symbol table and the
\* outputs are gone; and a create with an --id ends fatally in no attempt
\* unless a command before it in the stream has that --id.
C18_Retry ==
    /\ (h_pc = "run") =>
           attempt_state(ctx) =
               attempt_state(replay(h_out.base, Len(ctx.commands)))
    /\ (h_pc = "wait") =>
           /\ ctx.status = "running"
           /\ ctx.idl = h_out.base
           /\ ~ctx.txn.open /\ ~ctx.txn.committed
           /\ ctx.txn.writes = <<>> /\ ctx.txn.inserted = {}
           /\ DOMAIN ctx.symtab = {}
           /\ ctx.commands = <<>>
    /\ (h_pc = "done" /\ ctx.status = "EXIT_FAILURE") =>
           /\ attempt_state(ctx) =
                  attempt_state(replay(h_out.base, Len(ctx.commands) + 1))
           /\ (/\ h_in[Len(ctx.commands) + 1].argv[1] = s_create
               /\ h_in[Len(ctx.commands) + 1].options.has_id) =>
                  \E j \in 1..Len(ctx.commands) :
                      /\ h_in[j].options.has_id
                      /\ h_in[j].options.id =
                             h_in[Len(ctx.commands) + 1].options.id
    /\ (h_pc = "done" /\ ctx.status = "EXIT_SUCCESS") =>
           ctx.commands =
               driver_committed(
                   ctl_context_done(replay(h_out.base, Len(h_in))),
                   ctx.txn.real).commands

\* a stream of a create with an --id and a wait-until has exited with
\* success after more than one attempt, the create's output its one line
C18_Witness ==
    /\ h_pc = "done"
    /\ ctx.status = "EXIT_SUCCESS"
    /\ h_out.attempt >= 2
    /\ Len(h_in) = 2
    /\ h_in[1].argv[1] = s_create
    /\ h_in[1].options.has_id
    /\ h_in[2].argv[1] = s_wait_until
    /\ uuid_line(ctx.commands[1].output)


\* the stream is one wait-until with one condition, "tag=1"
wait_stream ==
    /\ Len(h_in) = 1
    /\ h_in[1].argv[1] = s_wait_until
    /\ Len(h_in[1].argv) = 4
    /\ h_in[1].argv[4] = <<"t", "a", "g", "=", "1">>

\* in 'rows' there is a port of the name the stream waits for, with tag 1
tag_written(rows) ==
    \E u \in DOMAIN rows :
        /\ rows[u].table = 2
        /\ rows[u].cols[1] = strings(<< h_in[1].argv[3] >>)
        /\ rows[u].cols[2] = [n |-> 1, keys |-> <<1>>, values |-> <<>>]

\* C19: on a stream of one wait-until for tag=1, as long as the snapshot
\* the IDL has delivered has no such port with tag 1, the process has not
\* exited, has no fatal error and has committed nothing; an attempt that
\* starts on a snapshot that has it leads to the commit and to exit with
\* success.
C19_WaitLoop ==
    /\ []((wait_stream /\ ~tag_written(h_out.base)) =>
             /\ h_pc \in {"run", "wait"}
             /\ ctx.status = "running"
             /\ ctx.error = ""
             /\ ~ctx.txn.committed)
    /\ (wait_stream /\ h_pc = "run" /\ tag_written(h_out.base)) ~>
           (/\ h_pc = "done"
            /\ ctx.status = "EXIT_SUCCESS"
            /\ ctx.error = ""
            /\ ctx.txn.committed)

\* the stream of one wait-until has exited with success after an attempt
\* that waited: the port was missing or its tag was not 1
C19_Witness ==
    /\ wait_stream
    /\ h_pc = "done"
    /\ ctx.status = "EXIT_SUCCESS"
    /\ ctx.txn.committed
    /\ h_out.attempt >= 2
    /\ tag_written(h_out.base)


(***************************************************************************)
(* The show renderer (ShowSpec).  tables is the schema, h_in the           *)
(* cmd_show_tables array, db the database; ctx holds the rows, the output, *)
(* the set 'shown', the rows of the first show table with the index of the *)
(* next one, and the stack of the calls of cmd_show_row under way, each    *)
(* with its row, its level, its place ("enter" before the header is        *)
(* printed, "columns" in the loop) and the loop indices i and j.           *)
(***************************************************************************)
ds_put_char_multiple(ch, n) == [k \in 1..n |-> ch]

\* cmd_show_find_table_by_row and cmd_show_find_table_by_name: the index in
\* 'show_tables' of the first entry found, NULL if there is none
cmd_show_find_table_by_row(show_tables, idl, row) ==
    IF \E k \in DOMAIN show_tables : show_tables[k].table = idl[row].table
    THEN CHOOSE k \in DOMAIN show_tables :
             /\ show_tables[k].table = idl[row].table
             /\ \A m \in 1..(k - 1) : show_tables[m].table # idl[row].table
    ELSE NULL

cmd_show_find_table_by_name(show_tables, name) ==
    IF \E k \in DOMAIN show_tables :
           strcmp(tables[show_tables[k].table].class.name, name) = 0
    THEN CHOOSE k \in DOMAIN show_tables :
             /\ strcmp(tables[show_tables[k].table].class.name, name) = 0
             /\ \A m \in 1..(k - 1) :
                    strcmp(tables[show_tables[m].table].class.name, name) # 0
    ELSE NULL

\* the first line that cmd_show_row prints for 'row'
cmd_show_row_header(c, row, level, show) ==
    ds_put_char_multiple(" ", level * 4)
    \o (IF show # NULL /\ h_in[show].name_column # NULL
        THEN tables[h_in[show].table].class.name \o <<" ">>
             \o ovsdb_datum_to_string(
                    ovsdb_idl_read(c, row, h_in[show].name_column),
                    column_type(tables[h_in[show].table],
                                h_in[show].name_column))
        ELSE uuid_to_string(row))
    \o <<"\n">>

\* the lines of cmd_show_weak_ref for 'cur_row', over 'rows' from the i-th
RECURSIVE cmd_show_weak_ref_loop(_, _, _, _, _, _)
cmd_show_weak_ref_loop(c, wref, cur_row, level, rows, i) ==
    IF i > Len(rows) THEN <<>>
    ELSE (IF /\ ovsdb_idl_read(c, rows[i], wref.wref_column).n > 0
             /\ ovsdb_idl_read(c, rows[i], wref.wref_column).keys[1] = cur_row
          THEN ds_put_char_multiple(" ", (level + 1) * 4)
               \o tables[wref.table].class.name \o <<" ">>
               \o ovsdb_datum_to_string(
                      ovsdb_idl_read(c, rows[i], wref.name_column),
                      column_type(tables[wref.table], wref.name_column))
               \o <<"\n">>
          ELSE <<>>)
         \o cmd_show_weak_ref_loop(c, wref, cur_row, level, rows, i + 1)

cmd_show_weak_ref(c, show, cur_row, level) ==
    IF \/ h_in[show].wref_table.table = NULL
       \/ h_in[show].wref_table.name_column = NULL
       \/ h_in[show].wref_table.wref_column = NULL
    THEN <<>>
    ELSE cmd_show_weak_ref_loop(c, h_in[show].wref_table, cur_row, level,
                                idl_rows(c.idl, h_in[show].wref_table.table),
                                1)

\* an end of cmd_show_row that leaves the name in 'shown'
sset_keep(shown, name) == shown

\* sset_find_and_delete_assert(shown, name)
sset_find_and_delete_assert(shown, name) == shown \ {name}

\* a test that looks for the show table only
cmd_show_row_returns_unshown(show, shown) == show = NULL

\* the test after the header: the row's table is no show table, or its
\* name is in 'shown'
cmd_show_row_returns(show, shown) ==
    \/ show = NULL
    \/ tables[h_in[show].table].class.name \in shown

\* the branch of the loop body that 'column' takes: "ref" recurses into the
\* rows it refers to, "map" prints the names of the rows its values refer
\* to, "plain" prints the datum
cmd_show_row_branch(type) ==
    IF type.key.type = "uuid" /\ type.key.refTableName # <<>>
    THEN IF cmd_show_find_table_by_name(h_in, type.key.refTableName) # NULL
         THEN "ref" ELSE "plain"
    ELSE IF /\ ovsdb_type_is_map(type)
            /\ type.value.type = "uuid"
            /\ type.value.refTableName # <<>>
    THEN IF /\ cmd_show_find_table_by_name(h_in, type.value.refTableName)
                   # NULL
            /\ h_in[cmd_show_find_table_by_name(
                        h_in, type.value.refTableName)].name_column # NULL
         THEN "map" ELSE "plain"
    ELSE "plain"

\* the lines of the "map" branch, from the j-th pair of the datum
RECURSIVE cmd_show_row_map(_, _, _, _, _, _)
cmd_show_row_map(c, datum, type, ref_show, level, j) ==
    IF j > datum.n THEN <<>>
    ELSE ds_put_char_multiple(" ", (level + 2) * 4)
         \o ovsdb_atom_to_string(datum.keys[j], type.key.type)
         \o <<"=">>
         \o (IF ovsdb_idl_get_row_for_uuid(c.idl, h_in[ref_show].table,
                                           datum.values[j]) # NULL
             THEN ovsdb_datum_to_string(
                      ovsdb_idl_read(c, datum.values[j],
                                     h_in[ref_show].name_column),
                      column_type(tables[h_in[ref_show].table],
                                  h_in[ref_show].name_column))
             ELSE <<"\"", "<", "n", "u", "l", "l", ">", "\"">>)
         \o <<"\n">>
         \o cmd_show_row_map(c, datum, type, ref_show, level, j + 1)

\* what the loop body prints for a column of the "map" or "plain" branch
cmd_show_row_print(c, row, level, table, column) ==
    IF cmd_show_row_branch(column_type(tables[table], column)) = "map"
    THEN ds_put_char_multiple(" ", (level + 1) * 4)
         \o tables[table].class.columns[column].name \o <<":", "\n">>
         \o cmd_show_row_map(
                c, ovsdb_idl_read(c, row, column),
                column_type(tables[table], column),
                cmd_show_find_table_by_name(
                    h_in,
                    column_type(tables[table], column).value.refTableName),
                level, 1)
    ELSE IF ovsdb_idl_read(c, row, column)
              # ovsdb_datum_init_default(column_type(tables[table], column))
    THEN ds_put_char_multiple(" ", (level + 1) * 4)
         \o tables[table].class.columns[column].name \o <<":", " ">>
         \o ovsdb_datum_to_string(ovsdb_idl_read(c, row, column),
                                  column_type(tables[table], column))
         \o <<"\n">>
    ELSE <<>>

\* a call of cmd_show_row(ctx, row, level, shown), and its return
show_call(c, row, level) ==
    [c EXCEPT !.stack = Append(@, [row |-> row, level |-> level,
                                   pc |-> "enter", i |-> 1, j |-> 1])]

show_return(c) ==
    [c EXCEPT !.stack = SubSeq(@, 1, Len(@) - 1)]

\* the call under way, the show table of its row and the column its loop
\* is at (NULL at the end of show->columns)
show_top == ctx.stack[Len(ctx.stack)]

show_of_top == cmd_show_find_table_by_row(h_in, ctx.idl, show_top.row)

show_column ==
    IF show_top.i > Len(h_in[show_of_top].columns) THEN NULL
    ELSE h_in[show_of_top].columns[show_top.i]

\* schemas: "A" with a name and a set of references, "B" with the same and
\* a map from integers to references to "A"
type_refs(name) ==
    [key |-> [type |-> "uuid", refTableName |-> name],
     value |-> base("void"), n_min |-> 0, n_max |-> UINT_MAX]

type_ref_map(name) ==
    [key |-> base("integer"),
     value |-> [type |-> "uuid", refTableName |-> name],
     n_min |-> 0, n_max |-> UINT_MAX]

ShowSchema(ref_a, ref_b) ==
    << [class   |-> [name    |-> <<"A">>,
                     columns |-> << [name |-> <<"n", "a", "m", "e">>,
                                     type |-> type_string, mutable |-> TRUE],
                                    [name |-> <<"r", "e", "f">>,
                                     type |-> type_refs(ref_a),
                                     mutable |-> TRUE] >>,
                     is_root |-> TRUE],
        row_ids |-> <<no_row_id, no_row_id>>],
       [class   |-> [name    |-> <<"B">>,
                     columns |-> << [name |-> <<"n", "a", "m", "e">>,
                                     type |-> type_string, mutable |-> TRUE],
                                    [name |-> <<"r", "e", "f">>,
                                     type |-> type_refs(ref_b),
                                     mutable |-> TRUE],
                                    [name |-> <<"m">>,
                                     type |-> type_ref_map(<<"A">>),
                                     mutable |-> TRUE] >>,
                     is_root |-> TRUE],
        row_ids |-> <<no_row_id, no_row_id>>] >>

ShowSchemas ==
    { ShowSchema(<<"B">>, <<"A">>), ShowSchema(<<"A">>, <<"B">>),
      ShowSchema(<<"B">>, <<"B">>), ShowSchema(<<"B">>, <<>>) }

no_wref == [table |-> NULL, name_column |-> NULL, wref_column |-> NULL]

\* cmd_show_tables arrays: both tables; both, "A" without a name column and
\* with the rows of "B" that refer to it as weak references; "A" alone
ShowTables ==
    { << [table |-> 1, name_column |-> 1, columns |-> <<2, NULL, NULL>>,
          wref_table |-> no_wref],
         [table |-> 2, name_column |-> 1, columns |-> <<2, 3, NULL>>,
          wref_table |-> no_wref] >>,
      << [table |-> 1, name_column |-> NULL, columns |-> <<2, NULL, NULL>>,
          wref_table |-> [table |-> 2, name_column |-> 1,
                          wref_column |-> 2]],
         [table |-> 2, name_column |-> 1, columns |-> <<3, 2, 1>>,
          wref_table |-> no_wref] >>,
      << [table |-> 1, name_column |-> 1, columns |-> <<2, 1, NULL>>,
          wref_table |-> no_wref] >> }

uuids(S) ==
    LET RECURSIVE ordered(_)
        ordered(T) == IF T = {} THEN <<>>
                      ELSE LET u == CHOOSE x \in T : \A y \in T : x <= y
                           IN  <<u>> \o ordered(T \ {u})
    IN  [n |-> Cardinality(S), keys |-> ordered(S), values |-> <<>>]

\* rows #1 and #3 of "A" and row #2 of "B", referring to each other and to
\* themselves; the map of #2 is empty or refers to #1 and to a row that is
\* gone
ShowRows ==
    { (1 :> [table |-> 1, cols |-> << strings(<< <<"a">> >>), uuids(r1) >>])
      @@ (2 :> [table |-> 2,
                cols |-> << strings(<< <<"b">> >>), uuids(r2), m >>])
      @@ (3 :> [table |-> 1, cols |-> << strings(<< <<"c">> >>), uuids(r3) >>])
      : r1 \in { S \in SUBSET {1, 2, 3} : Cardinality(S) <= 2 },
        r2 \in SUBSET {1, 2},
        r3 \in { {}, {1}, {2}, {3} },
        m \in { ovsdb_datum_init_empty,
                [n |-> 2, keys |-> <<1, 2>>, values |-> <<1, 9>>] } }

ShowInit ==
    /\ tables \in ShowSchemas
    /\ h_in \in ShowTables
    /\ db \in ShowRows
    /\ ctx = [idl |-> db, output |-> <<>>, shown |-> {}, stack |-> <<>>,
              rows |-> idl_rows(db, h_in[1].table), next |-> 1,
              status |-> "running"]
    /\ h_pc = "show"
    /\ h_out = 0

\* cmd_show's loop calls cmd_show_row on the next row of the first table
cmd_show_call ==
    /\ h_pc = "show"
    /\ ctx.stack = <<>>
    /\ ctx.next <= Len(ctx.rows)
    /\ ctx' = show_call([ctx EXCEPT !.next = @ + 1], ctx.rows[ctx.next], 0)
    /\ UNCHANGED <<tables, db, h_pc, h_in, h_out>>

\* the end of cmd_show: ovs_assert(sset_is_empty(&shown))
cmd_show_done ==
    /\ h_pc = "show"
    /\ ctx.stack = <<>>
    /\ ctx.next > Len(ctx.rows)
    /\ ctx' = [ctx EXCEPT !.status = IF ctx.shown = {} THEN "returned"
                                     ELSE "OVS_NOT_REACHED"]
    /\ h_pc' = "done"
    /\ UNCHANGED <<tables, db, h_in, h_out>>

\* the start of cmd_show_row: the header, then the return if the row's
\* table is no show table or is in 'shown', else its name goes in 'shown'
cmd_show_row_enter ==
    /\ h_pc = "show"
    /\ ctx.stack # <<>>
    /\ show_top.pc = "enter"
    /\ ctx' =
          IF cmd_show_row_returns(show_of_top, ctx.shown)
          THEN show_return(
                   [ctx EXCEPT !.output = @ \o cmd_show_row_header(
                                   ctx, show_top.row, show_top.level,
                                   show_of_top)])
          ELSE [ctx EXCEPT !.output = @ \o cmd_show_row_header(
                               ctx, show_top.row, show_top.level,
                               show_of_top),
                           !.shown = @ \cup
                               {tables[h_in[show_of_top].table].class.name},
                           !.stack[Len(ctx.stack)].pc = "columns"]
    /\ UNCHANGED <<tables, db, h_pc, h_in, h_out>>

\* the loop body at a column of references to a show table: one step of
\* the loop over the datum, which calls cmd_show_row on a row that exists
cmd_show_row_ref ==
    /\ h_pc = "show"
    /\ ctx.stack # <<>>
    /\ show_top.pc = "columns"
    /\ show_column # NULL
    /\ cmd_show_row_branch(
           column_type(tables[h_in[show_of_top].table], show_column)) = "ref"
    /\ ctx' =
          IF show_top.j > ovsdb_idl_read(ctx, show_top.row, show_column).n
          THEN [ctx EXCEPT !.stack[Len(ctx.stack)].i = @ + 1,
                           !.stack[Len(ctx.stack)].j = 1]
          ELSE IF ovsdb_idl_get_row_for_uuid(
                      ctx.idl,
                      h_in[cmd_show_find_table_by_name(
                               h_in,
                               column_type(tables[h_in[show_of_top].table],
                                           show_column).key.refTableName)
                          ].table,
                      ovsdb_idl_read(ctx, show_top.row,
                                     show_column).keys[show_top.j]) # NULL
          THEN show_call(
                   [ctx EXCEPT !.stack[Len(ctx.stack)].j = @ + 1],
                   ovsdb_idl_read(ctx, show_top.row,
                                  show_column).keys[show_top.j],
                   show_top.level + 1)
          ELSE [ctx EXCEPT !.stack[Len(ctx.stack)].j = @ + 1]
    /\ UNCHANGED <<tables, db, h_pc, h_in, h_out>>

\* the loop body at any other column
cmd_show_row_column ==
    /\ h_pc = "show"
    /\ ctx.stack # <<>>
    /\ show_top.pc = "columns"
    /\ show_column # NULL
    /\ cmd_show_row_branch(
           column_type(tables[h_in[show_of_top].table], show_column)) # "ref"
    /\ ctx' = [ctx EXCEPT !.output = @ \o cmd_show_row_print(
                              ctx, show_top.row, show_top.level,
                              h_in[show_of_top].table, show_column),
                          !.stack[Len(ctx.stack)].i = @ + 1]
    /\ UNCHANGED <<tables, db, h_pc, h_in, h_out>>

\* the end of the loop: cmd_show_weak_ref, the table's name leaves 'shown'
\* and the call returns
cmd_show_row_end ==
    /\ h_pc = "show"
    /\ ctx.stack # <<>>
    /\ show_top.pc = "columns"
    /\ show_column = NULL
    /\ ctx' = show_return(
                  [ctx EXCEPT !.output = @ \o cmd_show_weak_ref(
                                  ctx, show_of_top, show_top.row,
                                  show_top.level),
                              !.shown = sset_find_and_delete_assert(
                                  @,
                                  tables[h_in[show_of_top].table].class.name),
                              !.status =
                                  IF tables[h_in[show_of_top].table].class.name
                                         \in ctx.shown
                                  THEN @ ELSE "OVS_NOT_REACHED"])
    /\ UNCHANGED <<tables, db, h_pc, h_in, h_out>>

ShowNext ==
    \/ cmd_show_call
    \/ cmd_show_done
    \/ cmd_show_row_enter
    \/ cmd_show_row_ref
    \/ cmd_show_row_column
    \/ cmd_show_row_end

\* the command runs on one thread and nothing suspends it
ShowSpec == ShowInit /\ [][ShowNext]_vars /\ WF_vars(ShowNext)

\* C20: the calls of cmd_show_row under way are never more than the
\* distinct tables of cmd_show_tables and one, the levels they print at are
\* never more than the distinct tables, the show tables on the path are
\* distinct, and cmd_show returns, with 'shown' empty.
C20_Show ==
    /\ [](/\ Len(ctx.stack) <=
               Cardinality({ h_in[k].table : k \in DOMAIN h_in }) + 1
          /\ \A f \in DOMAIN ctx.stack :
                 ctx.stack[f].level = f - 1
          /\ \A f, g \in DOMAIN ctx.stack :
                 (f < g /\ ctx.stack[g].pc = "columns") =>
                     ctx.idl[ctx.stack[f].row].table
                         # ctx.idl[ctx.stack[g].row].table
          /\ ctx.status # "OVS_NOT_REACHED")
    /\ <>(h_pc = "done" /\ ctx.status = "returned" /\ ctx.shown = {})

\* on show tables that refer to each other in a cycle, a row that refers to
\* itself and to a row of the other table, which refers to it, is entered
\* again under that row and itself: three calls are under way
C20_Witness ==
    /\ Len(h_in) = 2
    /\ column_type(tables[1], 2).key.refTableName = <<"B">>
    /\ column_type(tables[2], 2).key.refTableName = <<"A">>
    /\ Len(ctx.stack) = 3
    /\ ctx.stack[1].row = ctx.stack[3].row
    /\ ctx.stack[1].row \in
           { ctx.idl[ctx.stack[2].row].cols[2].keys[k] :
               k \in 1..ctx.idl[ctx.stack[2].row].cols[2].n }
    /\ ctx.stack[1].row \in
           { ctx.idl[ctx.stack[1].row].cols[2].keys[k] :
               k \in 1..ctx.idl[ctx.stack[1].row].cols[2].n }


\* C21, as the specification states it: cmd_show_row prints no line for a
\* row of a table that has a row printed above it on the same branch, that
\* is, of the table of a row whose call is under way.
C21_AsStated ==
    [][(/\ ctx.stack # <<>>
        /\ show_top.pc = "enter"
        /\ ctx'.output # ctx.output) =>
           \A f \in 1..(Len(ctx.stack) - 1) :
               ctx.idl[ctx.stack[f].row].table # ctx.idl[show_top.row].table]_vars


s_destroy == <<"d", "e", "s", "t", "r", "o", "y">>

\* C22, as the specification states it: a set, add, remove or clear on a
\* record that exists, a create or a destroy, that has run to completion,
\* has called the invalidate_cache hook.
C22_AsStated ==
    (/\ h_pc = "run"
     /\ ctx.error = ""
     /\ \/ /\ \/ last_is(s_set)
              \/ last_is(s_add)
              \/ last_is(s_remove)
              \/ last_is(s_clear)
           /\ waited.row # NULL
        \/ last_is(s_create)
        \/ last_is(s_destroy)) =>
        ctx.hook > h_out.hook

\* what the pre pass of the command last run declares to the IDL by itself
last_declared ==
    syntax_pre([ctl_context_init_command(h_out, h_in) EXCEPT
                    !.declared = [tables |-> {}, columns |-> {}]]).declared

\* the table of a row that the command last run has found or inserted
touched_table(row) ==
    IF row \in DOMAIN h_out.idl THEN h_out.idl[row].table
    ELSE ctx.idl[row].table

\* the rows that the command last run has inserted or deleted, and the
\* (row, column) pairs it has written or read under ovsdb_idl_txn_verify
touched_rows ==
    (ctx.txn.inserted \ h_out.txn.inserted)
        \cup (ctx.txn.deleted \ h_out.txn.deleted)

touched_cells ==
    {<<staged[i].row, staged[i].column>> : i \in 1..Len(staged)}
        \cup (ctx.txn.verify \ h_out.txn.verify)

\* C23, as the specification states it: the table of every row that the
\* run pass of a command inserts, deletes, writes or verifies, and every
\* column it writes or verifies, was declared to the IDL (add_table,
\* add_column) by the pre pass of that same command.
C23_AsStated ==
    (h_pc = "run" /\ h_in.argv # <<>> /\ ctx.error = "") =>
        /\ \A row \in touched_rows :
               touched_table(row) \in last_declared.tables
        /\ \A cell \in touched_cells :
               /\ touched_table(cell[1]) \in last_declared.tables
               /\ <<touched_table(cell[1]), cell[2]>> \in last_declared.columns

(***************************************************************************)
(* parse_command on its own: a command of at most MaxOptions leading       *)
(* option tokens, a command name and its arguments is parsed against the   *)
(* commands that ctl_init registers.  h_in is the command line and the     *)
(* options handed over by the caller, h_out what parse_command leaves.     *)
(***************************************************************************)
INT_MAX == 2147483647

MaxOptions == 2

\* db_ctl_commands[]: name, min_args, max_args and options of each command
db_ctl_commands ==
    << [name |-> <<"c", "o", "m", "m", "e", "n", "t">>,
        min_args |-> 0, max_args |-> INT_MAX,
        options |-> <<>>],
       [name |-> <<"g", "e", "t">>,
        min_args |-> 2, max_args |-> INT_MAX,
        options |-> <<"-", "-", "i", "f", "-", "e", "x", "i", "s", "t", "s", ",", "-", "-", "i", "d", "=">>],
       [name |-> <<"l", "i", "s", "t">>,
        min_args |-> 1, max_args |-> INT_MAX,
        options |-> <<"-", "-", "i", "f", "-", "e", "x", "i", "s", "t", "s", ",", "-", "-", "c", "o", "l", "u", "m", "n", "s", "=">>],
       [name |-> <<"f", "i", "n", "d">>,
        min_args |-> 1, max_args |-> INT_MAX,
        options |-> <<"-", "-", "c", "o", "l", "u", "m", "n", "s", "=">>],
       [name |-> <<"s", "e", "t">>,
        min_args |-> 3, max_args |-> INT_MAX,
        options |-> <<"-", "-", "i", "f", "-", "e", "x", "i", "s", "t", "s">>],
       [name |-> <<"a", "d", "d">>,
        min_args |-> 4, max_args |-> INT_MAX,
        options |-> <<"-", "-", "i", "f", "-", "e", "x", "i", "s", "t", "s">>],
       [name |-> <<"r", "e", "m", "o", "v", "e">>,
        min_args |-> 4, max_args |-> INT_MAX,
        options |-> <<"-", "-", "i", "f", "-", "e", "x", "i", "s", "t", "s">>],
       [name |-> <<"c", "l", "e", "a", "r">>,
        min_args |-> 3, max_args |-> INT_MAX,
        options |-> <<"-", "-", "i", "f", "-", "e", "x", "i", "s", "t", "s">>],
       [name |-> <<"c", "r", "e", "a", "t", "e">>,
        min_args |-> 2, max_args |-> INT_MAX,
        options |-> <<"-", "-", "i", "d", "=">>],
       [name |-> <<"d", "e", "s", "t", "r", "o", "y">>,
        min_args |-> 1, max_args |-> INT_MAX,
        options |-> <<"-", "-", "i", "f", "-", "e", "x", "i", "s", "t", "s", ",", "-", "-", "a", "l", "l">>],
       [name |-> <<"w", "a", "i", "t", "-", "u", "n", "t", "i", "l">>,
        min_args |-> 2, max_args |-> INT_MAX,
        options |-> <<>>] >>

\* shash_find_data(&all_commands, name): the index of the command, or NULL
all_commands_find(name) ==
    IF \E k \in DOMAIN db_ctl_commands : db_ctl_commands[k].name = name
    THEN CHOOSE k \in DOMAIN db_ctl_commands : db_ctl_commands[k].name = name
    ELSE NULL

\* strchr(s, ch): the index of the first ch in s, or NULL
strchr(s, ch) ==
    IF \E k \in DOMAIN s : s[k] = ch
    THEN CHOOSE k \in DOMAIN s : s[k] = ch /\ \A j \in 1..(k - 1) : s[j] # ch
    ELSE NULL

\* needle is in haystack at index k
strstr_at(haystack, needle, k) ==
    /\ k + Len(needle) - 1 <= Len(haystack)
    /\ \A j \in 1..Len(needle) : haystack[k + j - 1] = needle[j]

\* strstr(haystack, needle): the index of the first occurrence, or NULL
strstr(haystack, needle) ==
    IF \E k \in 1..(Len(haystack) + 1) : strstr_at(haystack, needle, k)
    THEN CHOOSE k \in 1..(Len(haystack) + 1) :
             /\ strstr_at(haystack, needle, k)
             /\ \A j \in 1..(k - 1) : ~strstr_at(haystack, needle, j)
    ELSE NULL

\* key and value of an option token: split at the first '='
option_key_value(option, equals) ==
    IF equals # NULL
    THEN [key |-> SubSeq(option, 1, equals - 1), has_value |-> TRUE,
          value |-> SubSeq(option, equals + 1, Len(option))]
    ELSE [key |-> option, has_value |-> FALSE, value |-> <<>>]

\* shash_find(&command->options, key)
options_find(options, key) == \E k \in DOMAIN options : options[k].key = key

\* the first loop of parse_command from argv[i], and its body once the
\* token argv[i] has been split into o
RECURSIVE parse_options(_, _, _)
parse_option(argv, i, options, o) ==
    IF options_find(options, o.key)
    THEN [i |-> i, options |-> options,
          fatal |-> "option specified multiple times"]
    ELSE parse_options(argv, i + 1, Append(options, o))

parse_options(argv, i, options) ==
    IF i > Len(argv) \/ At(argv[i], 1) # "-"
    THEN [i |-> i, options |-> options, fatal |-> ""]
    ELSE parse_option(argv, i, options,
                      option_key_value(argv[i], strchr(argv[i], "=")))

\* the character of p->options that follows the first occurrence s of the
\* option's name: NUL at the end of the string, "EOF" without an occurrence
option_end(options, name, s) ==
    IF s = NULL THEN "EOF" ELSE At(options, s + Len(name))

\* the body of SHASH_FOR_EACH in parse_command for the option o, 'end' as
\* above: the message of ctl_fatal, "" for none
check_option(o, end) ==
    IF end # "=" /\ end # "," /\ end # " " /\ end # NUL
    THEN "command has no option"
    ELSE IF (end = "=") # o.has_value
    THEN IF end = "=" THEN "missing argument to option"
         ELSE "option does not accept an argument"
    ELSE ""

\* SHASH_FOR_EACH (node, &command->options), from the k-th option.  (The
\* order is that of the hash table; it decides only which of two messages
\* is given when two options are rejected.)
RECURSIVE check_options(_, _, _)
check_options(p, options, k) ==
    IF k > Len(options) THEN ""
    ELSE IF check_option(options[k],
                         option_end(p.options, options[k].key,
                                    strstr(p.options, options[k].key))) # ""
    THEN check_option(options[k],
                      option_end(p.options, options[k].key,
                                 strstr(p.options, options[k].key)))
    ELSE check_options(p, options, k + 1)

\* the test of the number of arguments
check_args(p, argv, i) ==
    IF Len(argv) - i < p.min_args THEN "command requires at least arguments"
    ELSE IF Len(argv) - i > p.max_args
    THEN IF \E j \in (i + 1)..Len(argv) : At(argv[j], 1) = "-"
         THEN "command takes at most arguments (note that options must precede command names)"
         ELSE "command takes at most arguments"
    ELSE ""

\* parse_command from the end of its first loop, which has left r, and
\* from the lookup of the command's name, which has found p
parse_command_found(argv, r, p) ==
    IF check_options(db_ctl_commands[p], r.options, 1) # ""
    THEN [fatal |-> check_options(db_ctl_commands[p], r.options, 1),
          options |-> r.options, syntax |-> NULL, argv |-> <<>>]
    ELSE IF check_args(db_ctl_commands[p], argv, r.i) # ""
    THEN [fatal |-> check_args(db_ctl_commands[p], argv, r.i),
          options |-> r.options, syntax |-> NULL, argv |-> <<>>]
    ELSE [fatal |-> "", options |-> r.options, syntax |-> p,
          argv |-> SubSeq(argv, r.i, Len(argv))]

parse_command_options(argv, r) ==
    IF r.fatal # ""
    THEN [fatal |-> r.fatal, options |-> r.options, syntax |-> NULL,
          argv |-> <<>>]
    ELSE IF r.i > Len(argv)
    THEN [fatal |-> "missing command name (use --help for help)",
          options |-> r.options, syntax |-> NULL, argv |-> <<>>]
    ELSE IF all_commands_find(argv[r.i]) = NULL
    THEN [fatal |-> "unknown command", options |-> r.options,
          syntax |-> NULL, argv |-> <<>>]
    ELSE parse_command_found(argv, r, all_commands_find(argv[r.i]))

\* parse_command(argc, argv, local_options, command)
parse_command(argv, local_options) ==
    parse_command_options(argv, parse_options(argv, 1, local_options))

\* the option tokens and the commands that are parsed
OptionTokens ==
    { <<"-", "-", "i", "d", "=", "@", "x">>,
      <<"-", "-", "i", "d">>,
      <<"-", "i", "d", "=", "@", "x">>,
      <<"-", "-", "i", "f", "-", "e", "x", "i", "s", "t", "s">>,
      <<"-", "-", "i", "f", "-", "e", "x", "i", "s", "t", "s", "=", "1">>,
      <<"-", "e", "x", "i", "s", "t", "s">>,
      <<"-", "-", "i", "f">>,
      <<"-", "-", "a", "l", "l">>,
      <<"-", "a", "l", "l">>,
      <<"-", "-", "c", "o", "l", "u", "m", "n", "s", "=", "c">>,
      <<"-">> }

CommandTails ==
    { <<<<"g", "e", "t">>, <<"T">>, <<"r">>>>,
      <<<<"c", "r", "e", "a", "t", "e">>, <<"T">>, <<"c", "=", "1">>>>,
      <<<<"d", "e", "s", "t", "r", "o", "y">>, <<"T">>>>,
      <<<<"d", "e", "s", "t", "r", "o", "y">>, <<"T">>, <<"-", "r">>>>,
      <<<<"s", "e", "t">>, <<"T">>, <<"r">>, <<"c", "=", "1">>>>,
      <<<<"l", "i", "s", "t">>, <<"T">>>>,
      <<<<"w", "a", "i", "t", "-", "u", "n", "t", "i", "l">>, <<"T">>, <<"r">>>>,
      <<<<"b", "o", "g", "u", "s">>>>,
      <<>>,
      <<<<"g", "e", "t">>, <<"T">>>> }

LocalOptions ==
    { <<>>,
      <<[key |-> <<"-", "-", "i", "f", "-", "e", "x", "i", "s", "t", "s">>, has_value |-> FALSE, value |-> <<>>]>> }

PInit ==
    /\ tables = <<>>
    /\ db = no_rows
    /\ ctx = ctx_init(no_rows)
    /\ h_in \in [argv : { o \o t : o \in SeqsUpTo(OptionTokens, MaxOptions),
                                   t \in CommandTails },
                 local_options : LocalOptions]
    /\ h_pc = "start"
    /\ h_out = [fatal |-> "", options |-> <<>>, syntax |-> NULL,
                argv |-> <<>>]

p_parse_command ==
    /\ h_pc = "start"
    /\ h_pc' = "parse_command"
    /\ h_out' = parse_command(h_in.argv, h_in.local_options)
    /\ UNCHANGED <<tables, db, ctx, h_in>>

PNext == p_parse_command

ParseSpec == PInit /\ [][PNext]_vars

\* the names that the options string lists: its elements between commas,
\* each without the "=" that ends it
option_elements(options) ==
    { SubSeq(options, a, b) :
        <<a, b>> \in { ab \in (1..Len(options)) \X (1..Len(options)) :
                         /\ ab[1] <= ab[2]
                         /\ ab[1] = 1 \/ options[ab[1] - 1] = ","
                         /\ ab[2] = Len(options) \/ options[ab[2] + 1] = ","
                         /\ \A j \in ab[1]..ab[2] : options[j] # "," } }

option_names(options) ==
    { IF e[Len(e)] = "=" THEN SubSeq(e, 1, Len(e) - 1) ELSE e :
        e \in option_elements(options) }

\* C24, as the specification states it: when parse_command accepts a
\* command, the key of every option of the command is exactly one of the
\* names that the options string of the command's verb lists.
C24_AsStated ==
    (h_pc = "parse_command" /\ h_out.fatal = "") =>
        \A k \in DOMAIN h_out.options :
            h_out.options[k].key \in
                option_names(db_ctl_commands[h_out.syntax].options)

\* a name or a query with every character normalised
normalised(s) == [i \in DOMAIN s |-> to_lower_and_underscores(s[i])]

\* the query s is, after normalising, a proper prefix of the name
proper_prefix(name, s) ==
    /\ Len(s) < Len(name)
    /\ SubSeq(normalised(name), 1, Len(s)) = normalised(s)

ArgColumns == { <<"s">>, <<"m">>, <<"z">>, <<>> }

ArgKeys == { <<>>, <<":", "1">>, <<":">> }

ArgRests ==
    { <<>>,
      <<"=">>,
      <<"=", "1">>,
      <<"<", "=">>,
      <<"<", "=", "1">>,
      <<"{", "<", "=", "}", "1">>,
      <<"{", "<", "=", "}">>,
      <<"!", "=", "1">>,
      <<"!">>,
      <<"{", "=", "}", "1">>,
      <<"{", "<", "}">>,
      <<"{", "<", "}", "=">>,
      <<"<", "1">>,
      <<"[", "1", "]">>,
      <<"{", "i", "n", "}", "1">>,
      <<"{", "i">> }

AInit ==
    /\ tables = ESchema
    /\ db = no_rows
    /\ ctx = ctx_init(no_rows)
    /\ h_in \in { [col |-> col, key |-> key, rest |-> rest,
                   arg |-> col \o key \o rest,
                   allowed_operators |-> ops, want_value |-> w] :
                    col \in ArgColumns, key \in ArgKeys, rest \in ArgRests,
                    ops \in {operators, <<>>}, w \in BOOLEAN }
    /\ h_pc = "start"
    /\ h_out = pckv_error("")

a_parse_column_key_value ==
    /\ h_pc = "start"
    /\ h_pc' = "parse_column_key_value"
    /\ h_out' = parse_column_key_value(h_in.arg, tables[1],
                                       h_in.allowed_operators,
                                       h_in.want_value)
    /\ UNCHANGED <<tables, db, ctx, h_in>>

ANext == a_parse_column_key_value

ArgSpec == AInit /\ [][ANext]_vars

\* the operators the argument is parsed with
arg_operators ==
    IF h_in.allowed_operators = <<>> THEN << <<"=">> >>
    ELSE h_in.allowed_operators

\* the operators that are a prefix of the text after column and key and
\* have at least one character after them
arg_qualifying ==
    { i \in DOMAIN arg_operators :
        /\ Len(arg_operators[i]) < Len(h_in.rest)
        /\ SubSeq(h_in.rest, 1, Len(arg_operators[i])) = arg_operators[i] }

\* the argument names a column of the table
arg_named == h_in.col \in {<<"s">>, <<"m">>}

\* every output is null
arg_nulls ==
    /\ h_out.column = NULL
    /\ ~h_out.has_key
    /\ ~h_out.has_value
    /\ h_out.operator = -1

\* C26: when a value is wanted, the operator is the longest allowed one
\* that is a prefix of the text after the column and the optional key and
\* has at least one character after it, op_index is its index, and the
\* value is all that follows it and is never empty; when no operator
\* qualifies, or no value is wanted and text is left after the key, an
\* error is returned with column, key and value null and op_index -1.
C26_Operator ==
    (h_pc = "parse_column_key_value" /\ arg_named) =>
        /\ (h_in.want_value /\ arg_qualifying # {}) =>
              /\ h_out.error = ""
              /\ h_out.operator + 1 \in arg_qualifying
              /\ \A i \in arg_qualifying :
                     Len(arg_operators[i])
                         <= Len(arg_operators[h_out.operator + 1])
              /\ h_out.has_value
              /\ h_out.value # <<>>
              /\ arg_operators[h_out.operator + 1] \o h_out.value = h_in.rest
              /\ h_out.column # NULL
              /\ h_out.has_key = (h_in.key # <<>>)
              /\ h_out.has_key => <<":">> \o h_out.key = h_in.key
        /\ (h_in.want_value /\ arg_qualifying = {}) =>
              h_out.error # "" /\ arg_nulls
        /\ (~h_in.want_value /\ h_in.rest # <<>>) =>
              h_out.error # "" /\ arg_nulls
        /\ (~h_in.want_value /\ h_in.rest = <<>>) =>
              h_out.error = "" /\ h_out.column # NULL

\* "{<=}" is taken before "{<}", and "<" with the value "=" where "<=" has
\* nothing after it
C26_Witness ==
    /\ h_pc = "parse_column_key_value"
    /\ arg_named
    /\ h_in.want_value
    /\ h_in.rest = <<"<", "=">>
    /\ h_out.error = ""
    /\ arg_operators[h_out.operator + 1] = <<"<">>
    /\ h_out.value = <<"=">>

\* the command last run is `set TABLE RECORD COL:K=V`, K and V one digit
set_key_form ==
    /\ last_is(s_set)
    /\ Len(h_in.argv) = 4
    /\ Len(h_in.argv[4]) >= 5
    /\ h_in.argv[4][Len(h_in.argv[4]) - 3] = ":"
    /\ h_in.argv[4][Len(h_in.argv[4]) - 1] = "="
    /\ is_digit(<<h_in.argv[4][Len(h_in.argv[4]) - 2]>>)
    /\ is_digit(<<h_in.argv[4][Len(h_in.argv[4])]>>)

set_key_column ==
    get_column(tables[last_table],
               SubSeq(h_in.argv[4], 1, Len(h_in.argv[4]) - 4)).column

set_key_pair ==
    << digit(<<h_in.argv[4][Len(h_in.argv[4]) - 2]>>),
       digit(<<h_in.argv[4][Len(h_in.argv[4])]>>) >>

\* C27: a set COL:KEY=VALUE on a map column that completes stages one
\* write, to that column of the record: the map the row had, with KEY bound
\* to VALUE in place of what KEY was bound to, and every pair of another
\* key as it was; the row's other columns are as they were.
C27_SetKey ==
    (/\ h_pc = "run" /\ ctx.error = ""
     /\ set_key_form
     /\ last_resolved /\ last_row # NULL) =>
        /\ Len(staged) = 1
        /\ staged[1].row = last_row
        /\ staged[1].column = set_key_column
        /\ ovsdb_type_is_map(column_type(tables[last_table], set_key_column))
        /\ Elements(staged[1].datum,
                    column_type(tables[last_table], set_key_column))
           = { e \in Elements(h_out.idl[last_row].cols[set_key_column],
                              column_type(tables[last_table], set_key_column)) :
                 e[1] # set_key_pair[1] }
             \cup { set_key_pair }
        /\ staged[1].datum.n = Cardinality(Elements(staged[1].datum,
                    column_type(tables[last_table], set_key_column)))
        /\ ctx.idl[last_row].cols[set_key_column] = staged[1].datum
        /\ \A col \in DOMAIN ctx.idl[last_row].cols :
               col # set_key_column =>
                   ctx.idl[last_row].cols[col] = h_out.idl[last_row].cols[col]

\* a binding replaced: set Port p ids:1=2 on a row whose ids is {1=1}
C27_Witness ==
    /\ h_pc = "run" /\ ctx.error = ""
    /\ set_key_form
    /\ last_resolved /\ last_row # NULL
    /\ set_key_pair = <<1, 2>>
    /\ <<1, 1>> \in Elements(h_out.idl[last_row].cols[set_key_column],
                             column_type(tables[last_table], set_key_column))
    /\ Len(staged) = 1
    /\ staged[1].datum = [n |-> 1, keys |-> <<1>>, values |-> <<2>>]

\* the names of the tables whose rows' calls, among those of 'stack', are
\* past the test of 'shown'
path_names(stack) ==
    { tables[ctx.idl[stack[f].row].table].class.name :
        f \in { g \in DOMAIN stack : stack[g].pc = "columns" } }

\* C28: 'shown' holds the tables of the calls under way and no other, so
\* it is empty between the root rows and at the assertion that ends
\* cmd_show, which never fails; a call that returns leaves 'shown' as it
\* was when the call was made; and a row of a show table is expanded
\* whenever no call under way is for a row of its table, whatever was
\* expanded before.
C28_PathLocal ==
    /\ [](/\ ctx.shown = path_names(ctx.stack)
          /\ ctx.stack = <<>> => ctx.shown = {}
          /\ ctx.status # "OVS_NOT_REACHED")
    /\ [][Len(ctx'.stack) < Len(ctx.stack) =>
              ctx'.shown = path_names(SubSeq(ctx.stack, 1,
                                             Len(ctx.stack) - 1))]_vars
    /\ [][(/\ ctx.stack # <<>>
           /\ show_top.pc = "enter"
           /\ show_of_top # NULL
           /\ tables[h_in[show_of_top].table].class.name
                  \notin path_names(SubSeq(ctx.stack, 1, Len(ctx.stack) - 1)))
          => /\ Len(ctx'.stack) = Len(ctx.stack)
             /\ ctx'.stack[Len(ctx.stack)].pc = "columns"]_vars

\* rows #1 and #3 of "A" both refer to row #2 of "B"; cmd_show is done with
\* #1, under which #2 was expanded, and #2 is expanded again under #3
C28_Witness ==
    /\ Len(h_in) = 2
    /\ column_type(tables[1], 2).key.refTableName = <<"B">>
    /\ ctx.idl[1].cols[2] = uuids({2})
    /\ ctx.idl[3].cols[2] = uuids({2})
    /\ ctx.next = 3
    /\ Len(ctx.stack) = 2
    /\ ctx.stack[1].row = 3
    /\ ctx.stack[2].row = 2
    /\ ctx.stack[2].pc = "columns"
    /\ ctx.shown = {<<"A">>, <<"B">>}

\* the command last run is `add TABLE RECORD COL K=V`, K and V one digit,
\* on a map column
add_pair_form ==
    /\ last_is(s_add)
    /\ Len(h_in.argv) = 5
    /\ is_pair(h_in.argv[5])
    /\ last_column # NULL
    /\ ovsdb_type_is_map(column_type(tables[last_table], last_column))

add_pair == << digit(<<h_in.argv[5][1]>>), digit(<<h_in.argv[5][3]>>) >>

\* the pairs of the column before the command
add_old ==
    Elements(h_out.idl[last_row].cols[last_column],
             column_type(tables[last_table], last_column))

\* C29: an add of K=V to a map column that completes writes the pairs the
\* map had, each with the value it had, and K=V besides only when the map
\* had no pair of key K; and the same add run again writes the datum that
\* is there.
C29_AddMap ==
    (/\ h_pc = "run" /\ ctx.error = ""
     /\ add_pair_form
     /\ last_resolved /\ last_row # NULL) =>
        /\ Len(staged) = 1
        /\ staged[1].row = last_row
        /\ staged[1].column = last_column
        /\ Elements(staged[1].datum,
                    column_type(tables[last_table], last_column))
           = add_old \cup (IF \E e \in add_old : e[1] = add_pair[1]
                           THEN {} ELSE {add_pair})
        /\ staged[1].datum.n = Cardinality(Elements(staged[1].datum,
                    column_type(tables[last_table], last_column)))
        /\ (/\ h_out.commands # <<>>
            /\ h_out.commands[Len(h_out.commands)].argv = h_in.argv)
           => staged[1].datum = h_out.idl[last_row].cols[last_column]

\* add Port p ids 1=2 on a row whose ids is {1=1}: {1=1} is written
C29_Witness ==
    /\ h_pc = "run" /\ ctx.error = ""
    /\ add_pair_form
    /\ last_resolved /\ last_row # NULL
    /\ add_pair = <<1, 2>>
    /\ add_old = {<<1, 1>>}
    /\ Len(staged) = 1
    /\ staged[1].datum = [n |-> 1, keys |-> <<1>>, values |-> <<1>>]

\* the command last run is a get, set, add, remove or clear with
\* --if-exists whose table is found and whose RECORD names no row
if_exists_no_row ==
    /\ h_pc = "run"
    /\ \/ last_is(s_get)
       \/ last_is(s_set)
       \/ last_is(s_add)
       \/ last_is(s_remove)
       \/ last_is(s_clear)
    /\ h_in.options.if_exists
    /\ get_table(h_in.argv[2]).fatal = ""
    /\ waited.fatal = ""
    /\ waited.row = NULL

\* the command last run has done nothing: no fatal error, no write, no
\* row inserted or deleted, no output, no call of the hook
nothing_done ==
    /\ ctx.error = ""
    /\ ctx.status = "running"
    /\ ctx.txn = h_out.txn
    /\ ctx.idl = h_out.idl
    /\ ctx.symtab = h_out.symtab
    /\ ctx.hook = h_out.hook
    /\ Len(ctx.commands) = Len(h_out.commands) + 1
    /\ ctx.commands[Len(ctx.commands)].output = <<>>

\* the rows that the RECORD arguments of the destroy last run name
destroy_named ==
    { get_row(h_out.idl, last_table, h_in.argv[i], FALSE).row :
        i \in 3..Len(h_in.argv) } \ {NULL}

\* C30, as the specification states it: a get, set, add, remove or clear
\* with --if-exists whose RECORD names no row does nothing, whatever its
\* later arguments are.
C30_AsStated == if_exists_no_row => nothing_done

\* C30: a get without --id, a set, add, remove or clear, with --if-exists
\* and a RECORD that names no row, whose column names the pre pass has found
\* in the table, does nothing, also when a later argument has no operator, a
\* value of the wrong type or a key the column cannot take; and a destroy
\* with --if-exists deletes the rows its RECORD arguments name and passes
\* over the arguments that name none.
C30_IfExists ==
    /\ (if_exists_no_row /\ ~h_in.options.has_id /\ last_pre.error = "")
           => nothing_done
    /\ (/\ h_pc = "run"
        /\ last_is(s_destroy)
        /\ h_in.options.if_exists
        /\ ~h_in.options.all
        /\ last_pre.error = "")
           => /\ ctx.error = ""
              /\ DOMAIN h_out.idl \ DOMAIN ctx.idl = destroy_named
              /\ ctx.txn.writes = h_out.txn.writes

\* --if-exists set Port zz tag=x: no row zz, and "x" is no integer
C30_Witness ==
    /\ if_exists_no_row
    /\ last_is(s_set)
    /\ last_pre.error = ""
    /\ ovsdb_datum_from_string(column_type(tables[last_table], last_column),
                               <<"x">>, << >>).error # ""
    /\ nothing_done

====
